---- MODULE Spec2Model ----
(***************************************************************************)
(* A model of the SMTP server engine of emailfabric/smtpd: the session     *)
(* state machine of server.go (ServeSMTP and its per-verb handlers), the   *)
(* line framing layer (conn), the reply mapping (ErrorReply) and the       *)
(* dot-unstuffing reader of reader.go.                                     *)
(*                                                                         *)
(* Text is modelled as a sequence of one-character strings, so that the    *)
(* code's slicing, case folding and prefix tests are computed, not         *)
(* assumed.  The fixed tail of a reply the engine formats itself is        *)
(* carried as one element after the status digits and is never inspected.  *)
(***************************************************************************)
EXTENDS Integers, Sequences, FiniteSets, TLC

\* ------------------------------------------------------------------ text

LowerChars == <<"a","b","c","d","e","f","g","h","i","j","k","l","m",
                "n","o","p","q","r","s","t","u","v","w","x","y","z">>

UpperChars == <<"A","B","C","D","E","F","G","H","I","J","K","L","M",
                "N","O","P","Q","R","S","T","U","V","W","X","Y","Z">>

DigitChars == <<"0","1","2","3","4","5","6","7","8","9">>

\* the upper-case letter of each lower-case letter
UpperOf ==
    [c \in {LowerChars[i] : i \in 1..26} |->
        UpperChars[CHOOSE i \in 1..26 : LowerChars[i] = c]]

\* strings.ToUpper on one character
UpperChar(c) == IF c \in DOMAIN UpperOf THEN UpperOf[c] ELSE c

\* strings.ToUpper
ToUpper(s) == [i \in 1..Len(s) |-> UpperChar(s[i])]

\* strings.EqualFold on ASCII text
EqualFold(s, t) == ToUpper(s) = ToUpper(t)

\* unicode.IsSpace / the regexp class \s on the characters of the model
IsSpace(c) == c \in {" ", "\t", "\r", "\n"}

\* unicode.IsNumber on the characters of the model
IsNumber(c) == c \in {DigitChars[i] : i \in 1..10}

\* strings.IndexFunc(s, f), 0-based, -1 when no character satisfies f
IndexNotNumber(s) ==
    IF \E i \in 1..Len(s) : ~IsNumber(s[i])
    THEN (CHOOSE i \in 1..Len(s) :
              /\ ~IsNumber(s[i])
              /\ \A j \in 1..(i-1) : IsNumber(s[j])) - 1
    ELSE -1

\* strings.IndexByte(s, c), 0-based, -1 when c does not occur
IndexByte(s, c) ==
    IF \E i \in 1..Len(s) : s[i] = c
    THEN (CHOOSE i \in 1..Len(s) :
              /\ s[i] = c
              /\ \A j \in 1..(i-1) : s[j] # c) - 1
    ELSE -1

\* strings.TrimSpace
TrimSpace(s) ==
    IF \A i \in 1..Len(s) : IsSpace(s[i])
    THEN <<>>
    ELSE LET first == CHOOSE i \in 1..Len(s) :
                          ~IsSpace(s[i]) /\ \A j \in 1..(i-1) : IsSpace(s[j])
             last  == CHOOSE i \in 1..Len(s) :
                          ~IsSpace(s[i]) /\ \A j \in (i+1)..Len(s) : IsSpace(s[j])
         IN  SubSeq(s, first, last)

\* split1: split at the first space into (elem, rest)
split1(str) ==
    LET i == IndexByte(str, " ")
    IN  IF i # -1
        THEN [elem |-> SubSeq(str, 1, i), rest |-> SubSeq(str, i + 2, Len(str))]
        ELSE [elem |-> str, rest |-> <<>>]

\* ------------------------------------------------------------- address

\* the character class [^>\s] of reAddress
InAddrClass(c) == c # ">" /\ ~IsSpace(c)

\* the end of the longest run of class characters that starts at r
AddrRunEnd(s, r) ==
    CHOOSE e \in r..Len(s) :
        /\ \A j \in r..e : InAddrClass(s[j])
        /\ (e = Len(s) \/ ~InAddrClass(s[e + 1]))

\* Where the capture group starts when the match is tried at position p,
\* or 0 when no match starts at p.  The alternatives are tried in the
\* engine's leftmost-first order: both optional characters are taken when
\* present, and given up (the "<" first) only when the group cannot start.
AddrGroupStart(s, p) ==
    LET has(i, c) == i <= Len(s) /\ s[i] = c
        q    == IF has(p, " ") THEN p + 1 ELSE p
        cand == << IF has(q, "<") THEN q + 1 ELSE q,
                   q,
                   IF has(p, "<") THEN p + 1 ELSE p,
                   p >>
        good(i) == cand[i] <= Len(s) /\ InAddrClass(s[cand[i]])
    IN  IF \E i \in 1..4 : good(i)
        THEN cand[CHOOSE i \in 1..4 : good(i) /\ \A j \in 1..(i-1) : ~good(j)]
        ELSE 0

\* address: the first submatch of reAddress, / ?<?([^>\s]+)/, in param,
\* the empty string when nothing matches
address(param) ==
    IF \E p \in 1..Len(param) : AddrGroupStart(param, p) # 0
    THEN LET p == CHOOSE p \in 1..Len(param) :
                      /\ AddrGroupStart(param, p) # 0
                      /\ \A j \in 1..(p-1) : AddrGroupStart(param, j) = 0
             g == AddrGroupStart(param, p)
         IN  SubSeq(param, g, AddrRunEnd(param, g))
    ELSE <<>>

\* ------------------------------------------------------------- replies

\* A reply line the engine formats itself: the three status digits, the
\* separator and the rest of the text.
DefaultHostname == <<"h","o","s","t">>

Reply220Greeting(host) == <<"2","2","0"," ">> \o host \o <<" ESMTP <time>">>
Reply221(host)         == <<"2","2","1"," ">> \o host \o <<" closing connection">>
Reply250Host(host)     == <<"2","5","0"," ">> \o host
Reply250OK             == <<"2","5","0"," ","OK">>
Reply500Unrecognized(verb) == <<"5","0","0"," ","unrecognized command: ">> \o verb
Reply501Helo           == <<"5","0","1"," ","Syntax: HELO hostname">>
Reply501Ehlo           == <<"5","0","1"," ","Syntax: EHLO hostname">>
Reply500NoTLS          == <<"5","0","0"," ","STARTTLS not supported">>
Reply500TLSInUse       == <<"5","0","0"," ","TLS already in use">>
Reply220ReadyTLS       == <<"2","2","0"," ","2.0.0 ready to start TLS">>
Reply502PlainNotAllowed == <<"5","0","2"," ","AUTH PLAIN not allowed, use STARTTLS first">>
Reply502LoginNotAllowed == <<"5","0","2"," ","AUTH LOGIN not allowed, use STARTTLS first">>
Reply502UnknownMech    == <<"5","0","2"," ","Unknown authentication mechanism">>
Reply334Credentials    == <<"3","3","4"," ","Give me your credentials">>
Reply334Username       == <<"3","3","4"," ","VXNlcm5hbWU6">>
Reply334Password       == <<"3","3","4"," ","UGFzc3dvcmQ6">>
Reply334Challenge(b64) == <<"3","3","4"," ">> \o b64
Reply502Decode         == <<"5","0","2"," ","Couldn't decode your credentials">>
Reply502Invalid        == <<"5","0","2"," ","invalid credentials">>
Reply235OK             == <<"2","3","5"," ","OK, you are now authenticated">>
Reply503Sender         == <<"5","0","3"," ","Sender already given">>
Reply501Mail           == <<"5","0","1"," ","Syntax: MAIL FROM:<address>">>
Reply503Rcpt           == <<"5","0","3"," ","RCPT TO without MAIL FROM">>
Reply501Rcpt           == <<"5","0","1"," ","5.5.4 Syntax: RCPT TO:<address>">>
Reply503Data           == <<"5","0","3"," ","DATA without RCPT TO">>
Reply354               == <<"3","5","4"," ","End data with <CR><LF>.<CR><LF>">>

\* the errors readAuthResp makes itself
ErrAuthCancelled == <<"5","0","1"," ","Authentication cancelled">>
ErrAuthBase64    == <<"5","0","1"," ","Invalid base64 encoding: <err>">>

\* the error of a failed transport read (io.EOF and the like)
ErrRead == <<"E","O","F">>

\* the nil error
Nil == <<"nil">>

\* conn.ErrorReply: the line written for an error
connErrorReply(err) ==
    IF IndexNotNumber(err) = 3
    THEN err
    ELSE <<"4","5","1"," ","Requested action aborted: ">> \o err

\* hasStatus of reply.go: s starts with three digits
hasStatus(s) == IndexNotNumber(s) = 3

\* isTemporary of reply.go; an error is [text, temporary], where temporary
\* is "none" for an error without a Temporary method, else what the method
\* returns
isTemporary(err) == err.temporary = "true"

\* ErrorReply of reply.go: the Reply made from an error
ErrorReply(err) ==
    IF hasStatus(err.text)
    THEN err.text
    ELSE IF isTemporary(err)
    THEN <<"4","0","0"," ">> \o err.text
    ELSE <<"5","0","0"," ">> \o err.text

\* conn.MultiLineReply: the lines written for a multi-line reply
MultiLineReply(status, args) ==
    [i \in 1..Len(args) |->
        status \o <<IF i < Len(args) THEN "-" ELSE " ">> \o args[i]]

\* the three status digits of a reply line
Code(line) == SubSeq(line, 1, 3)

\* ------------------------------------------------------------ dotReader

stateBeginLine == 0    \* beginning of line; initial state
stateDot       == 1    \* read . at beginning of line
stateDotCR     == 2    \* read .\r at beginning of line
stateData      == 3    \* reading data in middle of line
stateEOF       == 4    \* reached .\r\n end marker line

\* the errors of the io package that the reader returns
ioEOF              == <<"io.EOF">>
ioErrUnexpectedEOF == <<"io.ErrUnexpectedEOF">>

\* A dotReader is [r, state]: r is what the underlying bufio.Reader has
\* still to deliver (the bytes not yet consumed, up to the end of the
\* stream), state is the field of that name.
NewDotReader(r) == [r |-> r, state |-> stateBeginLine]

\* The loop body of dotReader.Read storing the withheld dot as well when
\* the byte after it is neither CR nor LF
ReadSwitchEmitsDot(st, c) ==
    CASE st = stateBeginLine ->
           IF c = "." THEN [state |-> stateDot, emit |-> <<>>, unread |-> FALSE]
           ELSE IF c # "\n" THEN [state |-> stateData, emit |-> <<c>>, unread |-> FALSE]
           ELSE [state |-> stateBeginLine, emit |-> <<c>>, unread |-> FALSE]
      [] st = stateDot ->
           IF c = "\r" THEN [state |-> stateDotCR, emit |-> <<>>, unread |-> FALSE]
           ELSE IF c = "\n" THEN [state |-> stateEOF, emit |-> <<>>, unread |-> FALSE]
           ELSE [state |-> stateData, emit |-> <<".", c>>, unread |-> FALSE]
      [] st = stateDotCR ->
           IF c = "\n" THEN [state |-> stateEOF, emit |-> <<>>, unread |-> FALSE]
           ELSE [state |-> stateData, emit |-> <<"\r">>, unread |-> TRUE]
      [] st = stateData ->
           IF c = "\n" THEN [state |-> stateBeginLine, emit |-> <<c>>, unread |-> FALSE]
           ELSE [state |-> stateData, emit |-> <<c>>, unread |-> FALSE]
      [] OTHER -> [state |-> st, emit |-> <<>>, unread |-> FALSE]

\* The loop body of dotReader.Read taking a dot followed by a bare LF for
\* a line of content
ReadSwitchNoBareLF(st, c) ==
    CASE st = stateBeginLine ->
           IF c = "." THEN [state |-> stateDot, emit |-> <<>>, unread |-> FALSE]
           ELSE IF c # "\n" THEN [state |-> stateData, emit |-> <<c>>, unread |-> FALSE]
           ELSE [state |-> stateBeginLine, emit |-> <<c>>, unread |-> FALSE]
      [] st = stateDot ->
           IF c = "\r" THEN [state |-> stateDotCR, emit |-> <<>>, unread |-> FALSE]
           ELSE IF c = "\n" THEN [state |-> stateBeginLine, emit |-> <<c>>, unread |-> FALSE]
           ELSE [state |-> stateData, emit |-> <<c>>, unread |-> FALSE]
      [] st = stateDotCR ->
           IF c = "\n" THEN [state |-> stateEOF, emit |-> <<>>, unread |-> FALSE]
           ELSE [state |-> stateData, emit |-> <<"\r">>, unread |-> TRUE]
      [] st = stateData ->
           IF c = "\n" THEN [state |-> stateBeginLine, emit |-> <<c>>, unread |-> FALSE]
           ELSE [state |-> stateData, emit |-> <<c>>, unread |-> FALSE]
      [] OTHER -> [state |-> st, emit |-> <<>>, unread |-> FALSE]

\* One pass of the loop body of dotReader.Read on byte c in state st:
\* the next state, the byte stored in b (<<>> after a continue) and
\* whether the byte read was pushed back with UnreadByte.
ReadSwitch(st, c) ==
    CASE st = stateBeginLine ->
           IF c = "." THEN [state |-> stateDot, emit |-> <<>>, unread |-> FALSE]
           ELSE IF c # "\n" THEN [state |-> stateData, emit |-> <<c>>, unread |-> FALSE]
           ELSE [state |-> stateBeginLine, emit |-> <<c>>, unread |-> FALSE]
      [] st = stateDot ->
           IF c = "\r" THEN [state |-> stateDotCR, emit |-> <<>>, unread |-> FALSE]
           ELSE IF c = "\n" THEN [state |-> stateEOF, emit |-> <<>>, unread |-> FALSE]
           ELSE [state |-> stateData, emit |-> <<c>>, unread |-> FALSE]
      [] st = stateDotCR ->
           IF c = "\n" THEN [state |-> stateEOF, emit |-> <<>>, unread |-> FALSE]
           ELSE [state |-> stateData, emit |-> <<"\r">>, unread |-> TRUE]
      [] st = stateData ->
           IF c = "\n" THEN [state |-> stateBeginLine, emit |-> <<c>>, unread |-> FALSE]
           ELSE [state |-> stateData, emit |-> <<c>>, unread |-> FALSE]
      [] OTHER -> [state |-> st, emit |-> <<>>, unread |-> FALSE]

\* The loop of dotReader.Read: r and state are the locals br and state,
\* out is b[0:n], size is len(b).
RECURSIVE ReadLoop(_, _, _, _)
ReadLoop(r, state, out, size) ==
    IF ~(Len(out) < size /\ state # stateEOF)
    THEN [r |-> r, state |-> state, out |-> out, err |-> Nil]
    ELSE IF r = <<>>
    THEN [r |-> r, state |-> state, out |-> out, err |-> ioErrUnexpectedEOF]
    ELSE LET sw == ReadSwitch(state, Head(r))
         IN  ReadLoop(IF sw.unread THEN r ELSE Tail(r),
                      sw.state, out \o sw.emit, size)

\* dotReader.Read(b) with len(b) = size: the reader afterwards, the bytes
\* stored in b and the error returned
Read(d, size) ==
    LET l == ReadLoop(d.r, d.state, <<>>, size)
    IN  [d   |-> [r |-> l.r, state |-> l.state],
         out |-> l.out,
         err |-> IF l.err = Nil /\ l.state = stateEOF THEN ioEOF ELSE l.err]

\* bufio.Reader.ReadSlice('\n') on r: the line through the delimiter, or
\* the rest of the stream and io.EOF when there is no delimiter
ReadSlice(r) ==
    LET i == IndexByte(r, "\n")
    IN  IF i = -1
        THEN [line |-> r, rest |-> <<>>, err |-> ioEOF]
        ELSE [line |-> SubSeq(r, 1, i + 1),
              rest |-> SubSeq(r, i + 2, Len(r)), err |-> Nil]

\* The loop of dotReader.WriteTo: w is what has been written so far.
RECURSIVE WriteToLoop(_, _, _)
WriteToLoop(r, state, w) ==
    LET rs == ReadSlice(r)
    IN  IF rs.err # Nil
        THEN [d |-> [r |-> rs.rest, state |-> state],
              w |-> w \o rs.line, n |-> Len(w) + Len(rs.line),
              err |-> ioErrUnexpectedEOF]
        ELSE IF Len(rs.line) >= 2 /\ rs.line[1] = "."
        THEN IF rs.line[2] = "\r" \/ rs.line[2] = "\n"
             THEN [d |-> [r |-> rs.rest, state |-> stateEOF],
                   w |-> w, n |-> 0, err |-> ioEOF]
             ELSE WriteToLoop(rs.rest, state, w \o Tail(rs.line))
        ELSE WriteToLoop(rs.rest, state, w \o rs.line)

\* dotReader.WriteTo(w): the reader afterwards, the bytes written to w,
\* the count and the error returned
WriteTo(d) ==
    IF d.state = stateEOF
    THEN [d |-> d, w |-> <<>>, n |-> 0, err |-> ioEOF]
    ELSE WriteToLoop(d.r, d.state, <<>>)

\* --------------------------------------------------------------- base64

\* The 256 byte values as characters: a printable ASCII byte is its
\* character, any other byte (and the backquote) is named by its
\* hexadecimal value.
ByteChars ==
    <<"x00","x01","x02","x03","x04","x05","x06","x07","x08","\t","\n",
      "x0B","x0C","\r","x0E","x0F","x10","x11","x12","x13","x14","x15",
      "x16","x17","x18","x19","x1A","x1B","x1C","x1D","x1E","x1F"," ","!",
      "\"","#","$","%","&","'","(",")","*","+",",","-",".","/","0","1",
      "2","3","4","5","6","7","8","9",":",";","<","=",">","?","@","A","B",
      "C","D","E","F","G","H","I","J","K","L","M","N","O","P","Q","R","S",
      "T","U","V","W","X","Y","Z","[","\\","]","^","_","x60","a","b","c",
      "d","e","f","g","h","i","j","k","l","m","n","o","p","q","r","s","t",
      "u","v","w","x","y","z","{","|","}","~","x7F","x80","x81","x82",
      "x83","x84","x85","x86","x87","x88","x89","x8A","x8B","x8C","x8D",
      "x8E","x8F","x90","x91","x92","x93","x94","x95","x96","x97","x98",
      "x99","x9A","x9B","x9C","x9D","x9E","x9F","xA0","xA1","xA2","xA3",
      "xA4","xA5","xA6","xA7","xA8","xA9","xAA","xAB","xAC","xAD","xAE",
      "xAF","xB0","xB1","xB2","xB3","xB4","xB5","xB6","xB7","xB8","xB9",
      "xBA","xBB","xBC","xBD","xBE","xBF","xC0","xC1","xC2","xC3","xC4",
      "xC5","xC6","xC7","xC8","xC9","xCA","xCB","xCC","xCD","xCE","xCF",
      "xD0","xD1","xD2","xD3","xD4","xD5","xD6","xD7","xD8","xD9","xDA",
      "xDB","xDC","xDD","xDE","xDF","xE0","xE1","xE2","xE3","xE4","xE5",
      "xE6","xE7","xE8","xE9","xEA","xEB","xEC","xED","xEE","xEF","xF0",
      "xF1","xF2","xF3","xF4","xF5","xF6","xF7","xF8","xF9","xFA","xFB",
      "xFC","xFD","xFE","xFF">>

\* the byte value of each character
OrdOf ==
    [c \in {ByteChars[i] : i \in 1..256} |->
        (CHOOSE i \in 1..256 : ByteChars[i] = c) - 1]

\* the byte value of a character
Ord(c) == OrdOf[c]

\* the character of a byte value
Chr(n) == ByteChars[n + 1]

\* the alphabet of base64.StdEncoding
B64Chars ==
    <<"A","B","C","D","E","F","G","H","I","J","K","L","M","N","O","P","Q",
      "R","S","T","U","V","W","X","Y","Z","a","b","c","d","e","f","g","h",
      "i","j","k","l","m","n","o","p","q","r","s","t","u","v","w","x","y",
      "z","0","1","2","3","4","5","6","7","8","9","+","/">>

\* the 6-bit value of each character of the alphabet
B64ValOf ==
    [c \in {B64Chars[i] : i \in 1..64} |->
        (CHOOSE i \in 1..64 : B64Chars[i] = c) - 1]

\* the 6-bit value of a character of the alphabet, -1 for any other
B64Val(c) == IF c \in DOMAIN B64ValOf THEN B64ValOf[c] ELSE -1

\* base64.StdEncoding.DecodeString: [ok, data].  Input is taken four
\* characters at a time; "=" padding may only close the last group.
RECURSIVE B64Decode(_)
B64Decode(s) ==
    IF Len(s) = 0 THEN [ok |-> TRUE, data |-> <<>>]
    ELSE IF Len(s) < 4 THEN [ok |-> FALSE, data |-> <<>>]
    ELSE
      LET v1 == B64Val(s[1])
          v2 == B64Val(s[2])
          v3 == B64Val(s[3])
          v4 == B64Val(s[4])
          rest == SubSeq(s, 5, Len(s))
          b1 == Chr((v1 * 4 + (v2 \div 16)) % 256)
          b2 == Chr((v2 % 16) * 16 + (v3 \div 4))
          b3 == Chr((v3 % 4) * 64 + v4)
          bad == [ok |-> FALSE, data |-> <<>>]
      IN  IF v1 < 0 \/ v2 < 0 THEN bad
          ELSE IF s[3] = "="
          THEN IF s[4] = "=" /\ rest = <<>>
               THEN [ok |-> TRUE, data |-> <<b1>>] ELSE bad
          ELSE IF v3 < 0 THEN bad
          ELSE IF s[4] = "="
          THEN IF rest = <<>>
               THEN [ok |-> TRUE, data |-> <<b1, b2>>] ELSE bad
          ELSE IF v4 < 0 THEN bad
          ELSE LET r == B64Decode(rest)
               IN  [ok |-> r.ok, data |-> <<b1, b2, b3>> \o r.data]

\* base64.StdEncoding.EncodeToString
RECURSIVE B64Encode(_)
B64Encode(s) ==
    IF Len(s) = 0 THEN <<>>
    ELSE
      LET n1 == Ord(s[1])
          n2 == IF Len(s) >= 2 THEN Ord(s[2]) ELSE 0
          n3 == IF Len(s) >= 3 THEN Ord(s[3]) ELSE 0
          c1 == B64Chars[(n1 \div 4) + 1]
          c2 == B64Chars[(n1 % 4) * 16 + (n2 \div 16) + 1]
          c3 == B64Chars[(n2 % 16) * 4 + (n3 \div 64) + 1]
          c4 == B64Chars[(n3 % 64) + 1]
      IN  IF Len(s) = 1 THEN <<c1, c2, "=", "=">>
          ELSE IF Len(s) = 2 THEN <<c1, c2, c3, "=">>
          ELSE <<c1, c2, c3, c4>> \o B64Encode(SubSeq(s, 4, Len(s)))

\* bytes.Split(data, sep) for a one-byte separator
RECURSIVE BytesSplit(_, _)
BytesSplit(data, sep) ==
    LET i == IndexByte(data, sep)
    IN  IF i = -1 THEN <<data>>
        ELSE <<SubSeq(data, 1, i)>> \o BytesSplit(SubSeq(data, i + 2, Len(data)), sep)

\* ------------------------------------------------------------- CRAM-MD5

\* the passwords AuthUser returns in the model
PasswordPw == <<"p","w">>
PasswordX  == <<"x">>

\* the challenge of authCramMD5: "<%d-%d@%s>" of a random number, the
\* time and the configured hostname
Challenge(rnd, host) == <<"<", rnd, "-", "2", "@">> \o host \o <<">">>

\* The lower-case hexadecimal HMAC-MD5 of msg under key, as crypto/hmac
\* and crypto/md5 compute it, tabulated on the keys and challenges of the
\* model.
hmacMD5Hex(key, msg) ==
    CASE key = <<"p","w">> /\ msg = <<"<","1","-","2","@","m","x",">">> ->
           <<"7","9","d","5","6","c","4","1","7","6","0","3","6","0","2","b","d","9","2","0","9","c","1","e","4","e","f","2","e","4","6","5">>
      [] key = <<"p","w">> /\ msg = <<"<","3","-","2","@","m","x",">">> ->
           <<"7","f","1","b","3","9","b","e","a","9","4","1","5","6","e","d","0","a","0","5","3","b","6","6","0","5","d","4","b","8","3","2">>
      [] key = <<"p","w">> /\ msg = <<"<","1","-","2","@",">">> ->
           <<"7","0","4","8","f","3","a","7","6","0","1","5","4","9","4","3","b","6","e","9","e","a","9","3","4","5","9","b","2","3","4","4">>
      [] key = <<"p","w">> /\ msg = <<"<","3","-","2","@",">">> ->
           <<"5","e","a","0","3","2","f","e","e","6","0","5","2","c","b","f","b","8","9","6","9","f","1","5","3","d","b","f","9","8","0","c">>
      [] key = <<"x">> /\ msg = <<"<","1","-","2","@","m","x",">">> ->
           <<"3","5","0","4","a","f","5","6","0","0","a","6","a","4","5","0","c","e","0","a","9","f","9","d","e","5","6","d","2","b","c","4">>
      [] key = <<"x">> /\ msg = <<"<","3","-","2","@","m","x",">">> ->
           <<"2","7","8","f","c","2","9","5","a","6","d","e","8","2","3","f","2","b","3","5","3","7","7","8","6","a","2","1","c","7","7","7">>
      [] key = <<"x">> /\ msg = <<"<","1","-","2","@",">">> ->
           <<"d","6","7","5","6","b","c","2","d","3","b","1","c","9","6","0","8","b","c","8","8","6","a","b","b","3","8","2","2","f","b","0">>
      [] key = <<"x">> /\ msg = <<"<","3","-","2","@",">">> ->
           <<"0","7","0","0","e","b","9","3","2","d","b","b","f","8","d","8","8","b","f","f","a","8","8","a","3","8","8","e","4","6","f","3">>


\* ----------------------------------------------------------- the inputs

\* How many lines one read of the transport may deliver beyond the line
\* that is being read (the client sent them ahead of the reply).
MaxAhead == 1

\* How many bytes of the body the Message hook may ask for.
MaxHookRead == 3

\* the command lines a client sends
LineHelo        == <<"H","E","L","O"," ","c">>
LineHeloNoArg   == <<"H","E","L","O">>
LineEhlo        == <<"E","H","L","O"," ","c">>
LineEhloNoArg   == <<"e","h","l","o">>
LineStarttls    == <<"S","T","A","R","T","T","L","S">>
LineAuthPlain   == <<"A","U","T","H"," ","P","L","A","I","N">>
LineAuthPlainCred == <<"A","U","T","H"," ","P","L","A","I","N"," ","A","H","V","z","Z","X","I","A","c","H","c","=">>
LineAuthLogin   == <<"a","u","t","h"," ","l","o","g","i","n">>
LineAuthCram    == <<"A","U","T","H"," ","C","R","A","M","-","M","D","5">>
LineAuthOther   == <<"A","U","T","H"," ","N","T","L","M">>
LineAuthNoMech  == <<"A","U","T","H">>
LineMail        == <<"M","A","I","L"," ","F","R","O","M",":","<","a",">">>
LineMailLower   == <<"m","a","i","l"," ","f","r","o","m",":","a">>
LineMailNoFrom  == <<"M","A","I","L"," ","<","a",">">>
LineRcpt        == <<"R","C","P","T"," ","T","O",":","<","b",">">>
LineRcptNoTo    == <<"R","C","P","T"," ","<","b",">">>
LineData        == <<"D","A","T","A">>
LineRset        == <<"R","S","E","T">>
LineQuit        == <<"Q","U","I","T">>
LineNoop        == <<"N","O","O","P">>

CmdLines ==
    { LineHelo, LineHeloNoArg, LineEhlo, LineEhloNoArg, LineStarttls,
      LineAuthPlain, LineAuthPlainCred, LineAuthLogin, LineAuthCram,
      LineAuthOther, LineAuthNoMech, LineMail, LineMailLower,
      LineMailNoFrom, LineRcpt, LineRcptNoTo, LineData, LineRset,
      LineQuit, LineNoop }

\* the lines a client sends ahead of the reply to the line before
AheadLines == { LineMail }

\* the names and passwords of the model
UserName == <<"u","s","e","r">>
Passwords == { PasswordPw, PasswordX }
Nonces == { "1", "3" }
Hostnames == { <<>>, <<"m","x">> }

\* the client's CRAM-MD5 response to challenge ch with password pw
CramResponse(pw, ch) ==
    B64Encode(UserName \o <<" ">> \o hmacMD5Hex(pw, ch))

\* the lines a client sends inside an AUTH exchange
RespCancel   == <<"*">>
RespNotB64   == <<"!">>
RespUser     == <<"d","X","N","l","c","g","=","=">>
RespPw       == <<"c","H","c","=">>
RespPlain    == <<"A","H","V","z","Z","X","I","A","c","H","c","=">>
RespPlainTwo == <<"A","H","V","z","Z","X","I","=">>

\* what a client answers to each 334
PlainRespLines == { RespCancel, RespNotB64, RespPlain, RespPlainTwo }
LoginUserLines == { RespCancel, RespNotB64, RespUser }
LoginPassLines == { RespCancel, RespNotB64, RespPw }
CramRespLines ==
    { RespCancel, RespNotB64 }
    \cup { CramResponse(PasswordPw, Challenge("1", h)) : h \in Hostnames }

\* what the client sends after the 354 reply, up to the end of what it
\* sends at all when the end-of-data marker is missing
BodyEmpty     == <<".","\r","\n">>
BodyDotInLine == <<"a",".","\r","\n","Q","U","I","T","\r","\n",".","\r","\n">>
BodyThenQuit  == <<"a","\r","\n",".","\r","\n","Q","U","I","T","\r","\n">>
BodyCutShort  == <<"a","\r","\n">>

BodyTails ==
    { BodyEmpty, BodyDotInLine, BodyThenQuit, BodyCutShort }

\* what the client of the test dialogue sends after the 354 reply: a
\* dot-stuffed body and the end marker
BodyDotAtEnd == <<"a",".","\r","\n",".","\r","\n">>
BodyStuffed  == <<".",".","a","\r","\n",".","\r","\n">>

ScriptBodies == { BodyEmpty, BodyDotInLine, BodyDotAtEnd, BodyStuffed }

\* what an application hook returns: nil or an error with this text
HookErrs == { <<"5","5","0"," ","n","o">>, <<"5","5","0">>, <<"f","a","i","l">> }
HookResults == { Nil } \cup HookErrs

\* what AuthUser returns: a password and nil, or an error
AuthResults ==
    { [password |-> p, err |-> Nil] : p \in Passwords }
    \cup { [password |-> <<>>, err |-> e] : e \in HookErrs }


\* ------------------------------------------------------------ the state

VARIABLES
    server,     \* the Server: [Hostname, TLSConfig, Pipelining]
    pc,         \* where ServeSMTP stands: "connect", "loop", inside an
                \* AUTH exchange ("authPlain", "authLoginUser",
                \* "authLoginPass", "authCram"), inside the Message hook
                \* ("message"), after its drain ("drained") or "done"
    tls,        \* session.tls
    hasSender,  \* session.hasSender
    hasRcpt,    \* session.hasRcpt
    conn,       \* session.conn, the framing layer: [gen, buf].  gen is
                \* the connection it reads (0 the net.Conn, 1 the
                \* tls.Conn); buf holds the lines its bufio.Reader has
                \* read and not yet handed out, each with the gen of the
                \* layer that read it
    handshake,  \* the handshake of the tls.Conn: "none", "pending"
                \* (tls.Server was called, nothing read yet), "done",
                \* "failed"
    closed,     \* the transport has ended: every further read fails
    ret,        \* what ServeSMTP returned: "running", "nil", "err"
    authst,     \* locals of the running AUTH exchange: [username,
                \* challenge]
    last,       \* what the last step did: the handler that ran (op), the
                \* line it read and the layer it came through (via), the
                \* reply lines written, the hooks invoked, for DATA the
                \* bytes that followed the command (body), and the
                \* session as it was before the step (pre)
    hist,       \* history: how often STARTTLS was answered 220 (n220),
                \* whether a Sender / Recipient call was accepted since
                \* the transaction last ended, by RSET or by a DATA phase
                \* (sender, rcpt), and the lines that were in the buffer
                \* of a framing layer when it was replaced (stale), how
                \* far the test client has come (script) and how much the
                \* client still sends (left)
    rd,         \* a dotReader on its own: [r, state]
    rbody,      \* the message body the client encoded for it
    rin,        \* the stream it was created on
    rout,       \* the bytes it has delivered so far
    rlast       \* its last call: [op, out, err] and the reader as it was
                \* before the call (pre)

sessVars == <<server, pc, tls, hasSender, hasRcpt, conn, handshake, closed,
              ret, authst, last, hist>>
readerVars == <<rd, rbody, rin, rout, rlast>>
vars == <<sessVars, readerVars>>

\* Server.hostname
hostname == IF server.Hostname # <<>> THEN server.Hostname ELSE DefaultHostname

\* newConn(c): a framing layer with an empty buffer on connection c
newConn(c) == [gen |-> c, buf |-> <<>>]

NoAuth == [username |-> <<>>, challenge |-> <<>>]

NoStep == [op |-> "none", line |-> <<>>, via |-> 0, replies |-> <<>>,
           hooks |-> <<>>, body |-> <<>>,
           pre |-> [tls |-> FALSE, hasSender |-> FALSE, hasRcpt |-> FALSE,
                    gen |-> 0, sender |-> FALSE, rcpt |-> FALSE,
                    authst |-> NoAuth]]

\* a hook call: the hook, its argument, the error it returned and, for
\* AuthUser, the password it returned
Hook(name, arg, err) == [hook |-> name, arg |-> arg, err |-> err, ret |-> <<>>]

\* a call of Handler.AuthUser that returned ar
AuthUserCall(username, ar) ==
    [hook |-> "AuthUser", arg |-> username, err |-> ar.err, ret |-> ar.password]

\* ------------------------------------------------------------- framing

\* the sequences of at most n lines sent ahead
RECURSIVE AheadSeqs(_)
AheadSeqs(n) ==
    IF n = 0 THEN { <<>> }
    ELSE AheadSeqs(n - 1)
         \cup { <<l>> \o a : l \in AheadLines,
                             a \in { x \in AheadSeqs(n - 1) : Len(x) = n - 1 } }

AheadChoices == AheadSeqs(MaxAhead)

\* conn.ReadLine without an error: every [line, via, buf, handshake] it
\* can return.  A buffered line is handed out as it is.  With an empty
\* buffer the bufio.Reader reads the connection once: the first line is
\* one of `first`, the lines sent ahead of it stay in the buffer; the
\* first read of a tls.Conn completes the handshake.
ReadLine(first) ==
    IF conn.buf # <<>>
    THEN { [line |-> Head(conn.buf).line, via |-> Head(conn.buf).gen,
            buf |-> Tail(conn.buf), handshake |-> handshake] }
    ELSE IF closed \/ handshake = "failed" THEN {}
    ELSE { [line |-> l, via |-> conn.gen,
            buf |-> [i \in 1..Len(a) |-> [line |-> a[i], gen |-> conn.gen]],
            handshake |-> IF handshake = "pending" THEN "done" ELSE handshake] :
           l \in first, a \in AheadChoices }

\* the verb and the parameters ServeSMTP splits a line into
Verb(line)   == ToUpper(split1(TrimSpace(line)).elem)
Params(line) == split1(TrimSpace(line)).rest


\* ------------------------------------------------------------ handlers

\* What a handler does is given as a record: the reply lines written, the
\* hooks invoked, the bytes taken as message body, and the session's
\* fields and ServeSMTP's position afterwards.  Base(r) is a handler that
\* does nothing after ReadLine returned r.
Base(r) ==
    [replies |-> <<>>, hooks |-> <<>>, body |-> <<>>,
     tls |-> tls, hasSender |-> hasSender, hasRcpt |-> hasRcpt,
     conn |-> [conn EXCEPT !.buf = r.buf], handshake |-> r.handshake,
     closed |-> closed, pc |-> "loop", ret |-> ret, authst |-> NoAuth]

\* session.helo asking the Hello hook before it looks at the argument
heloAsksHookFirst(r, params, err) ==
    IF params = <<>>
    THEN [Base(r) EXCEPT !.hooks = <<Hook("Hello", params, err)>>,
                         !.replies = <<Reply501Helo>>]
    ELSE IF err # Nil
    THEN [Base(r) EXCEPT !.hooks = <<Hook("Hello", params, err)>>,
                         !.replies = <<connErrorReply(err)>>]
    ELSE [Base(r) EXCEPT !.hooks = <<Hook("Hello", params, err)>>,
                         !.replies = <<Reply250Host(hostname)>>]

\* session.helo; err is what handler.Hello returns
helo(r, params, err) ==
    IF params = <<>>
    THEN [Base(r) EXCEPT !.replies = <<Reply501Helo>>]
    ELSE IF err # Nil
    THEN [Base(r) EXCEPT !.hooks = <<Hook("Hello", params, err)>>,
                         !.replies = <<connErrorReply(err)>>]
    ELSE [Base(r) EXCEPT !.hooks = <<Hook("Hello", params, err)>>,
                         !.replies = <<Reply250Host(hostname)>>]

\* the lines of the EHLO reply
ehloLines ==
    <<server.Hostname>>
    \o (IF server.TLSConfig /\ tls = FALSE THEN <<<<"STARTTLS">>>> ELSE <<>>)
    \o (IF tls THEN <<<<"AUTH PLAIN LOGIN">>>> ELSE <<<<"AUTH CRAM-MD5">>>>)
    \o (IF server.Pipelining THEN <<<<"PIPELINING">>>> ELSE <<>>)

\* session.ehlo; err is what handler.Hello returns
ehlo(r, params, err) ==
    IF params = <<>>
    THEN [Base(r) EXCEPT !.replies = <<Reply501Ehlo>>]
    ELSE IF err # Nil
    THEN [Base(r) EXCEPT !.hooks = <<Hook("Hello", params, err)>>,
                         !.replies = <<connErrorReply(err)>>]
    ELSE [Base(r) EXCEPT !.hooks = <<Hook("Hello", params, err)>>,
                         !.replies = MultiLineReply(<<"2","5","0">>, ehloLines)]

\* session.starttls handing the old reader's buffer to the new framing
starttlsKeepsBuffer(r) ==
    IF ~server.TLSConfig
    THEN [Base(r) EXCEPT !.replies = <<Reply500NoTLS>>]
    ELSE IF tls
    THEN [Base(r) EXCEPT !.replies = <<Reply500TLSInUse>>]
    ELSE [Base(r) EXCEPT !.replies = <<Reply220ReadyTLS>>,
                         !.handshake = "pending",
                         !.conn = [gen |-> 1, buf |-> r.buf],
                         !.tls = TRUE]

\* session.starttls without its check of s.tls
starttlsAgain(r) ==
    IF ~server.TLSConfig
    THEN [Base(r) EXCEPT !.replies = <<Reply500NoTLS>>]
    ELSE [Base(r) EXCEPT !.replies = <<Reply220ReadyTLS>>,
                         !.handshake = "pending",
                         !.conn = newConn(1),
                         !.tls = TRUE]

\* session.starttls forgetting the open transaction when it upgrades
starttlsEndsTransaction(r) ==
    IF ~server.TLSConfig
    THEN [Base(r) EXCEPT !.replies = <<Reply500NoTLS>>]
    ELSE IF tls
    THEN [Base(r) EXCEPT !.replies = <<Reply500TLSInUse>>]
    ELSE [Base(r) EXCEPT !.replies = <<Reply220ReadyTLS>>,
                         !.handshake = "pending",
                         !.conn = newConn(1),
                         !.hasSender = FALSE,
                         !.hasRcpt = FALSE,
                         !.tls = TRUE]

\* session.starttls
starttls(r) ==
    IF ~server.TLSConfig
    THEN [Base(r) EXCEPT !.replies = <<Reply500NoTLS>>]
    ELSE IF tls
    THEN [Base(r) EXCEPT !.replies = <<Reply500TLSInUse>>]
    ELSE [Base(r) EXCEPT !.replies = <<Reply220ReadyTLS>>,
                         !.handshake = "pending",
                         !.conn = newConn(1),
                         !.tls = TRUE]

\* session.authPlain accepting any password
authPlainCheckAnyPassword(r, data, ar) ==
    LET parts == BytesSplit(data, "x00")
    IN  IF Len(parts) # 3
        THEN [Base(r) EXCEPT !.replies = <<Reply502Decode>>]
        ELSE LET call == AuthUserCall(parts[2], ar)
             IN  IF ar.err # Nil
                 THEN [Base(r) EXCEPT !.hooks = <<call>>,
                                      !.replies = <<connErrorReply(ar.err)>>]
                 ELSE [Base(r) EXCEPT !.hooks = <<call>>,
                                      !.replies = <<Reply235OK>>]

\* the end of authPlain, from bytes.Split on; ar is what handler.AuthUser
\* returns
authPlainCheck(r, data, ar) ==
    LET parts == BytesSplit(data, "x00")
    IN  IF Len(parts) # 3
        THEN [Base(r) EXCEPT !.replies = <<Reply502Decode>>]
        ELSE LET call == AuthUserCall(parts[2], ar)
             IN  IF ar.err # Nil
                 THEN [Base(r) EXCEPT !.hooks = <<call>>,
                                      !.replies = <<connErrorReply(ar.err)>>]
                 ELSE IF parts[3] # ar.password
                 THEN [Base(r) EXCEPT !.hooks = <<call>>,
                                      !.replies = <<Reply502Invalid>>]
                 ELSE [Base(r) EXCEPT !.hooks = <<call>>,
                                      !.replies = <<Reply235OK>>]

\* session.authPlain up to its first read
authPlain(r, cred, ar) ==
    IF cred = <<>>
    THEN [Base(r) EXCEPT !.replies = <<Reply334Credentials>>,
                         !.pc = "authPlain"]
    ELSE LET dec == B64Decode(cred)
         IN  IF ~dec.ok
             THEN [Base(r) EXCEPT !.replies = <<Reply502Decode>>]
             ELSE authPlainCheck(r, dec.data, ar)

\* session.authLogin up to its first read
authLogin(r) ==
    [Base(r) EXCEPT !.replies = <<Reply334Username>>, !.pc = "authLoginUser"]

\* session.authCramMD5 up to its read; rnd is what rand.Int63 returns
authCramMD5(r, rnd) ==
    LET challenge == Challenge(rnd, server.Hostname)
    IN  [Base(r) EXCEPT !.replies = <<Reply334Challenge(B64Encode(challenge))>>,
                        !.authst = [username |-> <<>>, challenge |-> challenge],
                        !.pc = "authCram"]

\* session.auth without its checks of s.tls
authIgnoresTLS(r, params, ar, rnd) ==
    LET mech == ToUpper(split1(params).elem)
        cred == split1(params).rest
    IN  CASE mech = <<"P","L","A","I","N">> -> authPlain(r, cred, ar)
          [] mech = <<"L","O","G","I","N">> -> authLogin(r)
          [] mech = <<"C","R","A","M","-","M","D","5">> -> authCramMD5(r, rnd)
          [] OTHER -> [Base(r) EXCEPT !.replies = <<Reply502UnknownMech>>]

\* session.auth
auth(r, params, ar, rnd) ==
    LET mech == ToUpper(split1(params).elem)
        cred == split1(params).rest
    IN  CASE mech = <<"P","L","A","I","N">> ->
               IF tls = FALSE
               THEN [Base(r) EXCEPT !.replies = <<Reply502PlainNotAllowed>>]
               ELSE authPlain(r, cred, ar)
          [] mech = <<"L","O","G","I","N">> ->
               IF tls = FALSE
               THEN [Base(r) EXCEPT !.replies = <<Reply502LoginNotAllowed>>]
               ELSE authLogin(r)
          [] mech = <<"C","R","A","M","-","M","D","5">> ->
               authCramMD5(r, rnd)
          [] OTHER ->
               [Base(r) EXCEPT !.replies = <<Reply502UnknownMech>>]

\* session.readAuthResp without its test for the line "*"
readAuthRespNoCancel(line) ==
    LET dec == B64Decode(line)
    IN  IF ~dec.ok
        THEN [data |-> <<>>, err |-> ErrAuthBase64]
        ELSE [data |-> dec.data, err |-> Nil]

\* session.readAuthResp on a line that was read: [data, err]
readAuthResp(line) ==
    IF line = <<"*">>
    THEN [data |-> <<>>, err |-> ErrAuthCancelled]
    ELSE LET dec == B64Decode(line)
         IN  IF ~dec.ok
             THEN [data |-> <<>>, err |-> ErrAuthBase64]
             ELSE [data |-> dec.data, err |-> Nil]

\* session.authPlain writing nothing when the response cannot be read
authPlainRespSilent(r, ar) ==
    LET resp == readAuthResp(r.line)
    IN  IF resp.err # Nil
        THEN Base(r)
        ELSE authPlainCheck(r, resp.data, ar)

\* session.authPlain from its read on
authPlainResp(r, ar) ==
    LET resp == readAuthResp(r.line)
    IN  IF resp.err # Nil
        THEN [Base(r) EXCEPT !.replies = <<connErrorReply(resp.err)>>]
        ELSE authPlainCheck(r, resp.data, ar)

\* session.authLogin from its first read to its second
authLoginUser(r) ==
    LET resp == readAuthResp(r.line)
    IN  IF resp.err # Nil
        THEN [Base(r) EXCEPT !.replies = <<connErrorReply(resp.err)>>]
        ELSE [Base(r) EXCEPT !.replies = <<Reply334Password>>,
                             !.authst = [username |-> resp.data,
                                         challenge |-> <<>>],
                             !.pc = "authLoginPass"]

\* session.authLogin from its second read on
authLoginPass(r, ar) ==
    LET resp == readAuthResp(r.line)
        call == AuthUserCall(authst.username, ar)
    IN  IF resp.err # Nil
        THEN [Base(r) EXCEPT !.replies = <<connErrorReply(resp.err)>>]
        ELSE IF ar.err # Nil
        THEN [Base(r) EXCEPT !.hooks = <<call>>,
                             !.replies = <<connErrorReply(ar.err)>>]
        ELSE IF resp.data # ar.password
        THEN [Base(r) EXCEPT !.hooks = <<call>>,
                             !.replies = <<Reply502Invalid>>]
        ELSE [Base(r) EXCEPT !.hooks = <<call>>,
                             !.replies = <<Reply235OK>>]

\* session.authCramMD5 checking the response against a fixed challenge
authCramRespFixedChallenge(r, ar) ==
    LET resp == readAuthResp(r.line)
        username == split1(resp.data).elem
        hashed   == split1(resp.data).rest
        call == AuthUserCall(username, ar)
    IN  IF resp.err # Nil
        THEN [Base(r) EXCEPT !.replies = <<connErrorReply(resp.err)>>]
        ELSE IF ar.err # Nil
        THEN [Base(r) EXCEPT !.hooks = <<call>>,
                             !.replies = <<connErrorReply(ar.err)>>]
        ELSE IF hashed # hmacMD5Hex(ar.password, Challenge("1", server.Hostname))
        THEN [Base(r) EXCEPT !.hooks = <<call>>,
                             !.replies = <<Reply502Invalid>>]
        ELSE [Base(r) EXCEPT !.hooks = <<call>>,
                             !.replies = <<Reply235OK>>]

\* session.authCramMD5 from its read on
authCramResp(r, ar) ==
    LET resp == readAuthResp(r.line)
        username == split1(resp.data).elem
        hashed   == split1(resp.data).rest
        call == AuthUserCall(username, ar)
    IN  IF resp.err # Nil
        THEN [Base(r) EXCEPT !.replies = <<connErrorReply(resp.err)>>]
        ELSE IF ar.err # Nil
        THEN [Base(r) EXCEPT !.hooks = <<call>>,
                             !.replies = <<connErrorReply(ar.err)>>]
        ELSE IF hashed # hmacMD5Hex(ar.password, authst.challenge)
        THEN [Base(r) EXCEPT !.hooks = <<call>>,
                             !.replies = <<Reply502Invalid>>]
        ELSE [Base(r) EXCEPT !.hooks = <<call>>,
                             !.replies = <<Reply235OK>>]

\* an AUTH exchange whose read failed: the error goes to ErrorReply
authReadFailed ==
    [Base([buf |-> <<>>, handshake |-> handshake])
        EXCEPT !.replies = <<connErrorReply(ErrRead)>>, !.closed = TRUE]


\* session.mail without its check of hasSender
mailIgnoresOrder(r, params, err) ==
    IF Len(params) < 5
       \/ EqualFold(SubSeq(params, 1, 5), <<"F","R","O","M",":">>) = FALSE
    THEN [Base(r) EXCEPT !.replies = <<Reply501Mail>>]
    ELSE LET addr == address(SubSeq(params, 6, Len(params)))
         IN  IF err # Nil
             THEN [Base(r) EXCEPT !.hooks = <<Hook("Sender", addr, err)>>,
                                  !.replies = <<connErrorReply(err)>>]
             ELSE [Base(r) EXCEPT !.hooks = <<Hook("Sender", addr, err)>>,
                                  !.hasSender = TRUE,
                                  !.replies = <<Reply250OK>>]

\* session.mail; err is what handler.Sender returns
mail(r, params, err) ==
    IF hasSender
    THEN [Base(r) EXCEPT !.replies = <<Reply503Sender>>]
    ELSE IF Len(params) < 5
            \/ EqualFold(SubSeq(params, 1, 5), <<"F","R","O","M",":">>) = FALSE
    THEN [Base(r) EXCEPT !.replies = <<Reply501Mail>>]
    ELSE LET addr == address(SubSeq(params, 6, Len(params)))
         IN  IF err # Nil
             THEN [Base(r) EXCEPT !.hooks = <<Hook("Sender", addr, err)>>,
                                  !.replies = <<connErrorReply(err)>>]
             ELSE [Base(r) EXCEPT !.hooks = <<Hook("Sender", addr, err)>>,
                                  !.hasSender = TRUE,
                                  !.replies = <<Reply250OK>>]

\* session.rcpt clearing hasRcpt when the hook rejects
rcptForgetsOnReject(r, params, err) ==
    IF hasSender = FALSE
    THEN [Base(r) EXCEPT !.replies = <<Reply503Rcpt>>]
    ELSE IF Len(params) < 3
            \/ EqualFold(SubSeq(params, 1, 3), <<"T","O",":">>) = FALSE
    THEN [Base(r) EXCEPT !.replies = <<Reply501Rcpt>>]
    ELSE LET addr == address(SubSeq(params, 4, Len(params)))
         IN  IF err # Nil
             THEN [Base(r) EXCEPT !.hooks = <<Hook("Recipient", addr, err)>>,
                                  !.hasRcpt = FALSE,
                                  !.replies = <<connErrorReply(err)>>]
             ELSE [Base(r) EXCEPT !.hooks = <<Hook("Recipient", addr, err)>>,
                                  !.hasRcpt = TRUE,
                                  !.replies = <<Reply250OK>>]

\* session.rcpt; err is what handler.Recipient returns
rcpt(r, params, err) ==
    IF hasSender = FALSE
    THEN [Base(r) EXCEPT !.replies = <<Reply503Rcpt>>]
    ELSE IF Len(params) < 3
            \/ EqualFold(SubSeq(params, 1, 3), <<"T","O",":">>) = FALSE
    THEN [Base(r) EXCEPT !.replies = <<Reply501Rcpt>>]
    ELSE LET addr == address(SubSeq(params, 4, Len(params)))
         IN  IF err # Nil
             THEN [Base(r) EXCEPT !.hooks = <<Hook("Recipient", addr, err)>>,
                                  !.replies = <<connErrorReply(err)>>]
             ELSE [Base(r) EXCEPT !.hooks = <<Hook("Recipient", addr, err)>>,
                                  !.hasRcpt = TRUE,
                                  !.replies = <<Reply250OK>>]

\* the bytes of buffered lines, as the client sent them
RECURSIVE Unlines(_)
Unlines(buf) ==
    IF buf = <<>> THEN <<>>
    ELSE Head(buf).line \o <<"\r", "\n">> \o Unlines(Tail(buf))

\* the lines of a byte stream, each without its line ending, as
\* textproto.Reader.ReadLine returns them
RECURSIVE SplitLines(_)
SplitLines(bytes) ==
    IF bytes = <<>> THEN <<>>
    ELSE LET rs == ReadSlice(bytes)
             n  == Len(rs.line)
             line == IF rs.err # Nil THEN rs.line
                     ELSE IF n >= 2 /\ rs.line[n - 1] = "\r"
                     THEN SubSeq(rs.line, 1, n - 2)
                     ELSE SubSeq(rs.line, 1, n - 1)
         IN  <<line>> \o SplitLines(rs.rest)

\* session.data.  What the bufio.Reader delivers after the DATA line is
\* the buffered lines followed by `tail`; the Message hook asks for
\* `size` bytes of the body and returns err; io.Copy then drains the
\* reader through WriteTo.  What the drain leaves is the buffer of the
\* framing layer again.  A reader that met the end of the stream has seen
\* the transport end.
data(r, tail, size, err) ==
    IF hasRcpt = FALSE
    THEN [Base(r) EXCEPT !.replies = <<Reply503Data>>]
    ELSE LET stream == Unlines(r.buf) \o tail
             reader == NewDotReader(stream)
             hook   == Read(reader, size)
             copy   == WriteTo(hook.d)
             rest   == SplitLines(copy.d.r)
             ended  == hook.err = ioErrUnexpectedEOF
                       \/ copy.err = ioErrUnexpectedEOF
             after  == [Base(r) EXCEPT
                          !.body = stream,
                          !.hooks = <<Hook("Message", hook.out, err)>>,
                          !.conn = [gen |-> conn.gen,
                                    buf |-> [i \in 1..Len(rest) |->
                                               [line |-> rest[i],
                                                gen |-> conn.gen]]],
                          !.closed = (closed \/ ended)]
         IN  IF err # Nil
             THEN [after EXCEPT !.replies = <<Reply354, connErrorReply(err)>>]
             ELSE [after EXCEPT !.hasSender = FALSE,
                                !.hasRcpt = FALSE,
                                !.replies = <<Reply354, Reply250OK>>]

\* session.rset leaving hasSender as it is
rsetKeepsSender(r) ==
    [Base(r) EXCEPT !.hasRcpt = FALSE, !.replies = <<Reply250OK>>]

\* session.rset leaving hasRcpt as it is
rsetKeepsRcpt(r) ==
    [Base(r) EXCEPT !.hasSender = FALSE, !.replies = <<Reply250OK>>]

\* session.rset
rset(r) ==
    [Base(r) EXCEPT !.hasSender = FALSE, !.hasRcpt = FALSE,
                    !.replies = <<Reply250OK>>]

\* the QUIT case of ServeSMTP without its return
quitGoesOn(r) ==
    [Base(r) EXCEPT !.replies = <<Reply221(hostname)>>]

\* the QUIT case of ServeSMTP
quit(r) ==
    [Base(r) EXCEPT !.replies = <<Reply221(hostname)>>,
                    !.ret = "nil", !.pc = "done"]

\* the default case of ServeSMTP without its reply
unrecognizedSilent(r) ==
    Base(r)

\* the default case of ServeSMTP
unrecognized(r) ==
    [Base(r) EXCEPT !.replies =
        <<Reply500Unrecognized(split1(TrimSpace(r.line)).elem)>>]

\* ServeSMTP greeting the client whatever handler.Connect returns
connectGreetsAnyway(err) ==
    LET b == Base([buf |-> conn.buf, handshake |-> handshake])
    IN  [b EXCEPT !.hooks = <<Hook("Connect", <<>>, err)>>,
                  !.replies = <<Reply220Greeting(hostname)>>]

\* ServeSMTP up to its loop; err is what handler.Connect returns
connect(err) ==
    LET b == Base([buf |-> conn.buf, handshake |-> handshake])
    IN  IF err # Nil
        THEN [b EXCEPT !.hooks = <<Hook("Connect", <<>>, err)>>,
                       !.replies = <<connErrorReply(err)>>,
                       !.ret = "nil", !.pc = "done"]
        ELSE [b EXCEPT !.hooks = <<Hook("Connect", <<>>, err)>>,
                       !.replies = <<Reply220Greeting(hostname)>>]

\* ServeSMTP going on with its loop when ReadLine fails
readFailedGoesOn ==
    Base([buf |-> <<>>,
          handshake |-> IF handshake = "pending" THEN "failed" ELSE handshake])

\* ServeSMTP when ReadLine fails: it returns the error.  A first read of
\* the tls.Conn that fails is a handshake that failed.
readFailed ==
    [Base([buf |-> <<>>,
           handshake |-> IF handshake = "pending" THEN "failed" ELSE handshake])
        EXCEPT !.closed = TRUE, !.ret = "err", !.pc = "done"]


\* ------------------------------------------------------------- session

\* How far the history counts.
MaxCount == 2

Accepted(hooks, name) ==
    \E i \in 1..Len(hooks) : hooks[i].hook = name /\ hooks[i].err = Nil

\* No hook called in the step refused: none returned an error, and AuthUser
\* returned the password of the script's credentials.
Accepting(hooks) ==
    \A i \in 1..Len(hooks) :
        /\ hooks[i].err = Nil
        /\ hooks[i].hook = "AuthUser" => hooks[i].ret = PasswordPw

\* How far the client of sendMail (src/server_test.go) has come once the
\* step is done: hist.script names the last command of its dialogue that
\* has got its reply, "off" when the session is not, or no longer, this
\* dialogue.  The client sends one command, or the whole body, and waits for
\* the reply.  Lines the DATA phase left in the buffer are dispatched before
\* the client's QUIT is read, and the reply to the first of them is the one
\* the client reads as the reply to QUIT.
ScriptAfter(op, r, e) ==
    LET s == hist.script
        sent(line) == /\ conn.buf = <<>>
                      /\ r.buf = <<>>
                      /\ r.line = line
                      /\ Accepting(e.hooks)
    IN  IF s = "off" THEN "off"
        ELSE IF s = "start" /\ op = "connect" /\ Accepting(e.hooks)
        THEN "connect"
        ELSE IF s \in {"connect", "starttls"} /\ op = "ehlo" /\ sent(LineEhlo)
        THEN (IF s = "connect" THEN "ehlo" ELSE "ehlo2")
        ELSE IF s = "ehlo" /\ server.TLSConfig
                /\ op = "starttls" /\ sent(LineStarttls)
        THEN "starttls"
        ELSE IF s = "ehlo2" /\ op = "auth" /\ sent(LineAuthPlainCred)
        THEN "auth"
        ELSE IF (s = "auth" \/ (s = "ehlo" /\ ~server.TLSConfig))
                /\ op = "mail" /\ sent(LineMail)
        THEN "mail"
        ELSE IF s \in {"mail", "rcpt"} /\ op = "rcpt" /\ sent(LineRcpt)
        THEN "rcpt"
        ELSE IF s = "rcpt" /\ op = "data" /\ sent(LineData)
                /\ e.body \in ScriptBodies
        THEN "data"
        ELSE IF s = "data" /\ (conn.buf # <<>> \/ (op = "quit" /\ sent(LineQuit)))
        THEN "quit"
        ELSE "off"

\* How many more times the client sends something before its input is
\* over, once the step is done: a step whose ReadLine found the buffer
\* empty took what the client sent next.  -1 when the input is not counted.
LeftAfter(op) ==
    IF /\ hist.left > 0
       /\ conn.buf = <<>>
       /\ op \notin {"connect", "readError", "authReadError"}
    THEN hist.left - 1
    ELSE hist.left

\* A step of ServeSMTP: handler op ran on what ReadLine returned (r) and
\* did e.  The actions below draw what the hooks return, and the other
\* inputs of a handler, from their sets, and take a step for each thing the
\* handler can do with them.
Commit(op, r, e) ==
    LET ended == op = "rset" \/ e.body # <<>>
    IN  /\ tls' = e.tls
        /\ hasSender' = e.hasSender
        /\ hasRcpt' = e.hasRcpt
        /\ conn' = e.conn
        /\ handshake' = e.handshake
        /\ closed' = e.closed
        /\ pc' = e.pc
        /\ ret' = e.ret
        /\ authst' = e.authst
        /\ last' = [op |-> op, line |-> r.line, via |-> r.via,
                    replies |-> e.replies, hooks |-> e.hooks,
                    body |-> e.body,
                    pre |-> [tls |-> tls, hasSender |-> hasSender,
                             hasRcpt |-> hasRcpt, gen |-> conn.gen,
                             sender |-> hist.sender, rcpt |-> hist.rcpt,
                             authst |-> authst]]
        /\ hist' = [n220 |-> IF e.replies = <<Reply220ReadyTLS>>
                                 /\ hist.n220 < MaxCount
                             THEN hist.n220 + 1 ELSE hist.n220,
                    sender |-> IF ended THEN FALSE
                               ELSE hist.sender \/ Accepted(e.hooks, "Sender"),
                    rcpt |-> IF ended THEN FALSE
                             ELSE hist.rcpt \/ Accepted(e.hooks, "Recipient"),
                    stale |-> IF e.conn.gen # conn.gen
                              THEN hist.stale \o r.buf ELSE hist.stale,
                    script |-> ScriptAfter(op, r, e),
                    left |-> LeftAfter(op)]
        /\ UNCHANGED <<server, readerVars>>

NoLine == [line |-> <<>>, via |-> conn.gen, buf |-> conn.buf]

Verbs == { <<"H","E","L","O">>, <<"E","H","L","O">>,
           <<"S","T","A","R","T","T","L","S">>, <<"A","U","T","H">>,
           <<"M","A","I","L">>, <<"R","C","P","T">>, <<"D","A","T","A">>,
           <<"R","S","E","T">>, <<"Q","U","I","T">> }

\* the verb of each command line of the model, and the command lines of
\* each verb
VerbOf == [l \in CmdLines |-> ToUpper(split1(TrimSpace(l)).elem)]
LinesOf(verb) == { l \in CmdLines : VerbOf[l] = verb }
OtherLines == { l \in CmdLines : VerbOf[l] \notin Verbs }

Connect ==
    /\ pc = "connect"
    /\ \E e \in { connect(err) : err \in HookResults } :
        Commit("connect", NoLine, e)

ReadError ==
    /\ pc = "loop"
    /\ conn.buf = <<>>
    /\ Commit("readError", NoLine, readFailed)

Helo ==
    /\ pc = "loop"
    /\ \E r \in ReadLine(LinesOf(<<"H","E","L","O">>)) :
        /\ Verb(r.line) = <<"H","E","L","O">>
        /\ \E e \in { helo(r, Params(r.line), err) :
                         err \in HookResults } :
              Commit("helo", r, e)

Ehlo ==
    /\ pc = "loop"
    /\ \E r \in ReadLine(LinesOf(<<"E","H","L","O">>)) :
        /\ Verb(r.line) = <<"E","H","L","O">>
        /\ \E e \in { ehlo(r, Params(r.line), err) :
                         err \in HookResults } :
              Commit("ehlo", r, e)

Starttls ==
    /\ pc = "loop"
    /\ \E r \in ReadLine(LinesOf(<<"S","T","A","R","T","T","L","S">>)) :
        /\ Verb(r.line) = <<"S","T","A","R","T","T","L","S">>
        /\ Commit("starttls", r, starttls(r))

Auth ==
    /\ pc = "loop"
    /\ \E r \in ReadLine(LinesOf(<<"A","U","T","H">>)) :
        /\ Verb(r.line) = <<"A","U","T","H">>
        /\ \E e \in { auth(r, Params(r.line), ar, rnd) :
                         ar \in AuthResults, rnd \in Nonces } :
              Commit("auth", r, e)

AuthPlainResp ==
    /\ pc = "authPlain"
    /\ \E r \in ReadLine(PlainRespLines) :
        \E e \in { authPlainResp(r, ar) :
                       ar \in AuthResults } :
            Commit("authPlainResp", r, e)

AuthLoginUser ==
    /\ pc = "authLoginUser"
    /\ \E r \in ReadLine(LoginUserLines) :
        Commit("authLoginUser", r, authLoginUser(r))

AuthLoginPass ==
    /\ pc = "authLoginPass"
    /\ \E r \in ReadLine(LoginPassLines) :
        \E e \in { authLoginPass(r, ar) :
                       ar \in AuthResults } :
            Commit("authLoginPass", r, e)

AuthCramResp ==
    /\ pc = "authCram"
    /\ \E r \in ReadLine(CramRespLines) :
        \E e \in { authCramResp(r, ar) :
                       ar \in AuthResults } :
            Commit("authCramResp", r, e)

AuthReadError ==
    /\ pc \in {"authPlain", "authLoginUser", "authLoginPass", "authCram"}
    /\ conn.buf = <<>>
    /\ Commit("authReadError", NoLine, authReadFailed)

Mail ==
    /\ pc = "loop"
    /\ \E r \in ReadLine(LinesOf(<<"M","A","I","L">>)) :
        /\ Verb(r.line) = <<"M","A","I","L">>
        /\ \E e \in { mail(r, Params(r.line), err) :
                         err \in HookResults } :
              Commit("mail", r, e)

Rcpt ==
    /\ pc = "loop"
    /\ \E r \in ReadLine(LinesOf(<<"R","C","P","T">>)) :
        /\ Verb(r.line) = <<"R","C","P","T">>
        /\ \E e \in { rcpt(r, Params(r.line), err) :
                         err \in HookResults } :
              Commit("rcpt", r, e)

Data ==
    /\ pc = "loop"
    /\ \E r \in ReadLine(LinesOf(<<"D","A","T","A">>)) :
        /\ Verb(r.line) = <<"D","A","T","A">>
        /\ \E e \in { data(r, tail, size, err) :
                         tail \in BodyTails, size \in 0..MaxHookRead, err \in HookResults } :
              Commit("data", r, e)

Rset ==
    /\ pc = "loop"
    /\ \E r \in ReadLine(LinesOf(<<"R","S","E","T">>)) :
        /\ Verb(r.line) = <<"R","S","E","T">>
        /\ Commit("rset", r, rset(r))

Quit ==
    /\ pc = "loop"
    /\ \E r \in ReadLine(LinesOf(<<"Q","U","I","T">>)) :
        /\ Verb(r.line) = <<"Q","U","I","T">>
        /\ Commit("quit", r, quit(r))

Unrecognized ==
    /\ pc = "loop"
    /\ \E r \in ReadLine(OtherLines) :
        /\ Verb(r.line) \notin Verbs
        /\ Commit("unrecognized", r, unrecognized(r))

ReaderIdle ==
    /\ rd = NewDotReader(<<>>)
    /\ rbody = <<>>
    /\ rin = <<>>
    /\ rout = <<>>
    /\ rlast = [op |-> "none", out |-> <<>>, err |-> Nil, pre |-> rd]

Init ==
    /\ server \in [Hostname : Hostnames, TLSConfig : BOOLEAN,
                   Pipelining : BOOLEAN]
    /\ pc = "connect"
    /\ tls = FALSE
    /\ hasSender = FALSE
    /\ hasRcpt = FALSE
    /\ conn = newConn(0)
    /\ handshake = "none"
    /\ closed = FALSE
    /\ ret = "running"
    /\ authst = NoAuth
    /\ last = NoStep
    /\ hist = [n220 |-> 0, sender |-> FALSE, rcpt |-> FALSE, stale |-> <<>>,
               script |-> "off", left |-> -1]
    /\ ReaderIdle

Next ==
    \/ Connect
    \/ ReadError
    \/ Helo
    \/ Ehlo
    \/ Starttls
    \/ Auth
    \/ AuthPlainResp
    \/ AuthLoginUser
    \/ AuthLoginPass
    \/ AuthCramResp
    \/ AuthReadError
    \/ Mail
    \/ Rcpt
    \/ Data
    \/ Rset
    \/ Quit
    \/ Unrecognized

Spec == Init /\ [][Next]_vars


\* ------------------------------------------------- the test dialogue

\* The session of sendMail in src/server_test.go: the client sends EHLO,
\* with TLS configured STARTTLS, EHLO and AUTH PLAIN, then MAIL, RCPT, DATA
\* with a body, and QUIT.  The steps are those of ServeSMTP above; the
\* session is followed for as long as it is this dialogue (hist.script).
InitDialogue ==
    /\ server \in [Hostname : Hostnames, TLSConfig : BOOLEAN,
                   Pipelining : BOOLEAN]
    /\ pc = "connect"
    /\ tls = FALSE
    /\ hasSender = FALSE
    /\ hasRcpt = FALSE
    /\ conn = newConn(0)
    /\ handshake = "none"
    /\ closed = FALSE
    /\ ret = "running"
    /\ authst = NoAuth
    /\ last = NoStep
    /\ hist = [n220 |-> 0, sender |-> FALSE, rcpt |-> FALSE, stale |-> <<>>,
               script |-> "start", left |-> -1]
    /\ ReaderIdle

\* session.data on what this client sends after the 354
DataDialogue ==
    /\ pc = "loop"
    /\ \E r \in ReadLine(LinesOf(<<"D","A","T","A">>)) :
        /\ Verb(r.line) = <<"D","A","T","A">>
        /\ \E e \in { data(r, tail, size, err) :
                         tail \in ScriptBodies, size \in 0..MaxHookRead,
                         err \in HookResults } :
              Commit("data", r, e)

Following == hist.script # "off"

NextDialogue ==
    \/ Following /\ Connect
    \/ Following /\ Ehlo
    \/ Following /\ Starttls
    \/ Following /\ Auth
    \/ Following /\ Mail
    \/ Following /\ Rcpt
    \/ Following /\ DataDialogue
    \/ Following /\ Quit
    \/ Following /\ Unrecognized

SpecDialogue == InitDialogue /\ [][NextDialogue]_vars


\* ------------------------------------------------- finite input

\* A session whose client sends at most MaxInput times (a command line
\* with the lines sent ahead of it, a response line, or a DATA line with
\* what follows the 354) and then nothing more: the input ends with QUIT
\* or with the transport being closed, which it may be at any moment.
\* Every hook returns, so ServeSMTP takes its next step whenever one is
\* possible.
MaxInput == 3

InitFinite ==
    /\ server \in [Hostname : Hostnames, TLSConfig : BOOLEAN,
                   Pipelining : BOOLEAN]
    /\ pc = "connect"
    /\ tls = FALSE
    /\ hasSender = FALSE
    /\ hasRcpt = FALSE
    /\ conn = newConn(0)
    /\ handshake = "none"
    /\ closed = FALSE
    /\ ret = "running"
    /\ authst = NoAuth
    /\ last = NoStep
    /\ hist = [n220 |-> 0, sender |-> FALSE, rcpt |-> FALSE, stale |-> <<>>,
               script |-> "off", left |-> MaxInput]
    /\ ReaderIdle

\* ReadLine returns a line: one from the buffer, or one of what the client
\* still sends
InputLeft == conn.buf # <<>> \/ hist.left > 0

NextFinite ==
    \/ Connect
    \/ ReadError
    \/ InputLeft /\ Helo
    \/ InputLeft /\ Ehlo
    \/ InputLeft /\ Starttls
    \/ InputLeft /\ Auth
    \/ InputLeft /\ AuthPlainResp
    \/ InputLeft /\ AuthLoginUser
    \/ InputLeft /\ AuthLoginPass
    \/ InputLeft /\ AuthCramResp
    \/ AuthReadError
    \/ InputLeft /\ Mail
    \/ InputLeft /\ Rcpt
    \/ InputLeft /\ Data
    \/ InputLeft /\ Rset
    \/ InputLeft /\ Quit
    \/ InputLeft /\ Unrecognized

SpecFinite == InitFinite /\ [][NextFinite]_vars /\ WF_vars(NextFinite)


\* ------------------------------------------------- addresses

\* MAIL and RCPT on every parameter text of up to MaxAddrLen characters
\* after the FROM: / TO: prefix, with hooks that accept the address.
MaxAddrLen == 3
AddrChars == { " ", "<", ">", "a" }

RECURSIVE AddrTextsOf(_)
AddrTextsOf(n) ==
    IF n = 0 THEN { <<>> }
    ELSE AddrTextsOf(n - 1)
         \cup { t \o <<c>> : t \in { x \in AddrTextsOf(n - 1) : Len(x) = n - 1 },
                              c \in AddrChars }

AddrTexts == AddrTextsOf(MaxAddrLen)

MailLines == { <<"M","A","I","L"," ","F","R","O","M",":">> \o t : t \in AddrTexts }
RcptLines == { <<"R","C","P","T"," ","T","O",":">> \o t : t \in AddrTexts }

InitAddress ==
    /\ Init
    /\ server = [Hostname |-> <<"m","x">>, TLSConfig |-> FALSE,
                 Pipelining |-> FALSE]

MailAddress ==
    /\ pc = "loop"
    /\ \E r \in ReadLine(MailLines) :
        /\ Verb(r.line) = <<"M","A","I","L">>
        /\ Commit("mail", r, mail(r, Params(r.line), Nil))

RcptAddress ==
    /\ pc = "loop"
    /\ \E r \in ReadLine(RcptLines) :
        /\ Verb(r.line) = <<"R","C","P","T">>
        /\ Commit("rcpt", r, rcpt(r, Params(r.line), Nil))

NextAddress ==
    \/ Connect
    \/ MailAddress
    \/ RcptAddress

SpecAddress == InitAddress /\ [][NextAddress]_vars


\* ------------------------------------------------- the Reply constructor

\* The application calls ErrorReply on errors with every text of up to
\* MaxReplyLen characters, with and without a Temporary method.
MaxReplyLen == 4
ReplyChars == { "5", " ", "x" }

RECURSIVE ReplyTextsOf(_)
ReplyTextsOf(n) ==
    IF n = 0 THEN { <<>> }
    ELSE ReplyTextsOf(n - 1)
         \cup { t \o <<c>> : t \in { x \in ReplyTextsOf(n - 1) : Len(x) = n - 1 },
                              c \in ReplyChars }

Errors ==
    [text : ReplyTextsOf(MaxReplyLen), temporary : {"none", "true", "false"}]

InitReply == InitAddress

\* one call of ErrorReply; the step is recorded in last, with the error as
\* the argument and the Reply as the line
ErrorReplyCall ==
    /\ \E err \in Errors :
          last' = [NoStep EXCEPT
                     !.op = "ErrorReply",
                     !.hooks = <<[hook |-> "ErrorReply", arg |-> err.text,
                                  err |-> err.temporary, ret |-> <<>>]>>,
                     !.replies = <<ErrorReply(err)>>]
    /\ UNCHANGED <<server, pc, tls, hasSender, hasRcpt, conn, handshake,
                   closed, ret, authst, hist, readerVars>>

NextReply == ErrorReplyCall

SpecReply == InitReply /\ [][NextReply]_vars


\* ------------------------------------------------- the reader alone
\* A dotReader over one stream, read by a Message hook with calls of
\* dotReader.Read.  The stream is what a client sends for a body: the body
\* with the leading dot of each line doubled, the end marker, and what the
\* client sends next.

MaxLines == 2
MaxBuf == 3

\* the texts of the lines of a body, without their CRLF
LineTexts ==
    { <<>>, <<".">>, <<".", ".">>, <<"a">>, <<".", "a">>, <<"a", ".">>,
      <<".", "\r">>, <<"\r">>, <<".", "h", "e", "l", "l", "o">> }

\* the bodies of at most n lines, each ended by CRLF
RECURSIVE BodiesOf(_)
BodiesOf(n) ==
    IF n = 0 THEN { <<>> }
    ELSE LET shorter == BodiesOf(n - 1)
         IN  shorter \cup { b \o l \o <<"\r", "\n">> :
                              b \in shorter, l \in LineTexts }

Bodies == BodiesOf(MaxLines)

\* what the client sends after the end marker
StreamTails == { <<>>, <<"Q", "U", "I", "T", "\r", "\n">> }

EndMarker == <<".", "\r", "\n">>

\* the client's side of the transparency procedure: a line that begins
\* with a dot gets one more dot in front
RECURSIVE DotEncodeFrom(_, _)
DotEncodeFrom(body, beginLine) ==
    IF body = <<>> THEN <<>>
    ELSE (IF beginLine /\ Head(body) = "." THEN <<".", ".">>
          ELSE <<Head(body)>>)
         \o DotEncodeFrom(Tail(body), Head(body) = "\n")

DotEncode(body) == DotEncodeFrom(body, TRUE)

\* the session while its Message hook runs
InitReader ==
    /\ server = [Hostname |-> <<>>, TLSConfig |-> FALSE, Pipelining |-> FALSE]
    /\ pc = "message"
    /\ tls = FALSE
    /\ hasSender = TRUE
    /\ hasRcpt = TRUE
    /\ conn = newConn(0)
    /\ handshake = "none"
    /\ closed = FALSE
    /\ ret = "running"
    /\ authst = NoAuth
    /\ last = NoStep
    /\ hist = [n220 |-> 0, sender |-> TRUE, rcpt |-> TRUE, stale |-> <<>>,
               script |-> "off", left |-> -1]
    /\ rbody \in Bodies
    /\ \E tail \in StreamTails : rin = DotEncode(rbody) \o EndMarker \o tail
    /\ rd = NewDotReader(rin)
    /\ rout = <<>>
    /\ rlast = [op |-> "none", out |-> <<>>, err |-> Nil, pre |-> rd]

\* one call of dotReader.Read with a buffer of size bytes
ReadCall ==
    /\ pc = "message"
    /\ \E size \in 1..MaxBuf :
         LET res == Read(rd, size)
         IN  /\ rd' = res.d
             /\ rout' = rout \o res.out
             /\ rlast' = [op |-> "read", out |-> res.out, err |-> res.err,
                           pre |-> rd]
    /\ UNCHANGED <<sessVars, rbody, rin>>

NextReader == ReadCall

SpecReader == InitReader /\ [][NextReader]_vars

\* ------------------------------------------- the reader on any stream
\* A dotReader over any stream of bytes, as session.data uses it: the
\* Message hook calls dotReader.Read some number of times, then io.Copy
\* drains the reader with dotReader.WriteTo.

MaxStreamLen == 5

StreamBytes == { ".", "a", "\r", "\n" }

\* the streams of at most n bytes
RECURSIVE StreamsOf(_)
StreamsOf(n) ==
    IF n = 0 THEN { <<>> }
    ELSE LET shorter == StreamsOf(n - 1)
         IN  shorter \cup { <<c>> \o t : c \in StreamBytes,
                                         t \in { u \in shorter : Len(u) = n - 1 } }

Streams == StreamsOf(MaxStreamLen)

InitStream ==
    /\ server = [Hostname |-> <<>>, TLSConfig |-> FALSE, Pipelining |-> FALSE]
    /\ pc = "message"
    /\ tls = FALSE
    /\ hasSender = TRUE
    /\ hasRcpt = TRUE
    /\ conn = newConn(0)
    /\ handshake = "none"
    /\ closed = FALSE
    /\ ret = "running"
    /\ authst = NoAuth
    /\ last = NoStep
    /\ hist = [n220 |-> 0, sender |-> TRUE, rcpt |-> TRUE, stale |-> <<>>,
               script |-> "off", left |-> -1]
    /\ rbody = <<>>
    /\ rin \in Streams
    /\ rd = NewDotReader(rin)
    /\ rout = <<>>
    /\ rlast = [op |-> "none", out |-> <<>>, err |-> Nil, pre |-> rd]

\* io.Copy(ioutil.Discard, reader) once the Message hook has returned: one
\* call of dotReader.WriteTo
WriteToCall ==
    /\ pc = "message"
    /\ LET res == WriteTo(rd)
       IN  /\ rd' = res.d
           /\ rout' = rout \o res.w
           /\ rlast' = [op |-> "writeTo", out |-> res.w, err |-> res.err,
                        pre |-> rd]
    /\ pc' = "drained"
    /\ UNCHANGED <<server, tls, hasSender, hasRcpt, conn, handshake, closed,
                   ret, authst, last, hist, rbody, rin>>

NextStream == ReadCall \/ WriteToCall

SpecStream == InitStream /\ [][NextStream]_vars

\* ------------------------------------------------------------- claims

\* the steps that handled a line ReadLine returned
LineOps ==
    { "helo", "ehlo", "starttls", "auth", "authPlainResp", "authLoginUser",
      "authLoginPass", "authCramResp", "mail", "rcpt", "data", "rset",
      "quit", "unrecognized" }

\* the steps that handled a command line of the loop
CommandOps ==
    { "helo", "ehlo", "starttls", "auth", "mail", "rcpt", "data", "rset",
      "quit", "unrecognized" }

\* one reply line with this status
Answered(replies, code) == Len(replies) = 1 /\ Code(replies[1]) = code

\* the step invoked this hook
Invoked(hooks, name) == \E i \in 1..Len(hooks) : hooks[i].hook = name

\* the mechanism named on an AUTH line
Mech(line) == ToUpper(split1(Params(line)).elem)

\* params begins with this prefix, letter case aside
HasPrefixFold(params, prefix) ==
    /\ Len(params) >= Len(prefix)
    /\ EqualFold(SubSeq(params, 1, Len(prefix)), prefix)

\* p is the beginning of t
IsPrefix(p, t) == Len(p) <= Len(t) /\ p = SubSeq(t, 1, Len(p))

\* the lines the buffer of the framing layer holds
BufferedLines == [i \in 1..Len(conn.buf) |-> conn.buf[i].line]

\* the bytes of a stream that follow its end-of-data marker, the first line
\* that is "." alone; <<"none">> when the stream holds no such line
RECURSIVE AfterMarker(_)
AfterMarker(stream) ==
    IF stream = <<>> THEN <<"none">>
    ELSE LET rs == ReadSlice(stream)
         IN  IF rs.err # Nil THEN <<"none">>
             ELSE IF rs.line \in { <<".", "\r", "\n">>, <<".", "\n">> }
             THEN rs.rest
             ELSE AfterMarker(rs.rest)

\* In the formulas below last describes the step that led to the state and
\* last.pre the session before that step.

\* C1: a MAIL while hasSender is true, an RCPT while hasSender is false and
\* a DATA while hasRcpt is false are each answered 503, invoke no hook,
\* read no body and leave hasSender and hasRcpt as they were; after an
\* accepted MAIL every MAIL is answered 503 until an RSET or a DATA phase.
C1_OrderingViolationsAnswered503 ==
    ( \/ (last.op = "mail" /\ last.pre.hasSender)
      \/ (last.op = "mail" /\ last.pre.sender)
      \/ (last.op = "rcpt" /\ ~last.pre.hasSender)
      \/ (last.op = "data" /\ ~last.pre.hasRcpt) )
        => /\ Answered(last.replies, <<"5","0","3">>)
           /\ last.hooks = <<>>
           /\ last.body = <<>>
           /\ hasSender = last.pre.hasSender
           /\ hasRcpt = last.pre.hasRcpt

C1_Witness ==
    /\ last.op = "mail"
    /\ last.pre.hasSender
    /\ last.pre.sender
    /\ last.replies = <<Reply503Sender>>

\* C2: after a DATA phase (354 was sent and the Message hook returned)
\* hasSender and hasRcpt are both false, whether the hook succeeded or
\* failed.
C2_DataPhaseEndsTransaction ==
    (last.op = "data" /\ Len(last.replies) = 2 /\ last.replies[1] = Reply354)
        => (hasSender = FALSE /\ hasRcpt = FALSE)

\* C3: for every body and every amount of it the Message hook consumed,
\* whether the hook succeeded or failed, the lines the command loop reads
\* after DATA are exactly the lines that follow the end-of-data marker.
C3_NextLineFollowsMarker ==
    (/\ last.op = "data"
     /\ last.body # <<>>
     /\ AfterMarker(last.body) # <<"none">>)
        => BufferedLines = SplitLines(AfterMarker(last.body))

\* C4: on an unencrypted session AUTH PLAIN and AUTH LOGIN are answered 502
\* with no 334, no read of a response line and no AuthUser call; AUTH
\* CRAM-MD5 is processed on encrypted and unencrypted sessions alike; every
\* other mechanism name, the empty one included, is answered 502 without an
\* AuthUser call.
C4_AuthMechanismGate ==
    last.op = "auth" =>
        LET mech == Mech(last.line)
        IN  /\ (mech \in { <<"P","L","A","I","N">>, <<"L","O","G","I","N">> }
                /\ last.pre.tls = FALSE)
                  => /\ Answered(last.replies, <<"5","0","2">>)
                     /\ last.hooks = <<>>
                     /\ pc = "loop"
            /\ mech = <<"C","R","A","M","-","M","D","5">>
                  => /\ Answered(last.replies, <<"3","3","4">>)
                     /\ pc = "authCram"
            /\ mech \notin { <<"P","L","A","I","N">>, <<"L","O","G","I","N">>,
                             <<"C","R","A","M","-","M","D","5">> }
                  => /\ Answered(last.replies, <<"5","0","2">>)
                     /\ last.hooks = <<>>
                     /\ pc = "loop"

C4_Witness ==
    /\ last.op = "auth"
    /\ last.pre.tls = FALSE
    /\ Mech(last.line) = <<"L","O","G","I","N">>
    /\ last.replies = <<Reply502LoginNotAllowed>>
    /\ pc = "loop"

\* C5: lines the old framing layer had buffered when STARTTLS was answered
\* 220 are never dispatched afterwards: every line handled once tls is true
\* was read through the framing layer created by the upgrade, and the
\* buffer of the current framing layer holds only lines it read itself.
C5_NoPlaintextAfterUpgrade ==
    /\ tls => conn.gen = 1
    /\ \A i \in 1..Len(conn.buf) : conn.buf[i].gen = conn.gen
    /\ (last.pre.tls /\ last.op \in LineOps) => last.via = 1

C5_Witness ==
    /\ last.pre.tls
    /\ hist.stale # <<>>
    /\ last.op \in CommandOps
    /\ last.via = 1

\* C6: STARTTLS is answered 500 and changes nothing when the server has no
\* TLS configuration or the session is already encrypted; otherwise it is
\* answered 220, the framing layer is replaced and tls becomes true.  tls
\* never goes from true to false and 220 is issued at most once.
C6_StarttlsOnce ==
    /\ hist.n220 <= 1
    /\ last.pre.tls => tls
    /\ (last.op = "starttls" /\ (~server.TLSConfig \/ last.pre.tls))
          => /\ Answered(last.replies, <<"5","0","0">>)
             /\ tls = last.pre.tls
             /\ conn.gen = last.pre.gen
             /\ hasSender = last.pre.hasSender
             /\ hasRcpt = last.pre.hasRcpt
    /\ (last.op = "starttls" /\ server.TLSConfig /\ ~last.pre.tls)
          => /\ last.replies = <<Reply220ReadyTLS>>
             /\ tls = TRUE
             /\ conn = newConn(1)
             /\ hist.n220 = 1

C6_Witness ==
    /\ last.op = "starttls"
    /\ last.pre.tls
    /\ last.replies = <<Reply500TLSInUse>>
    /\ hist.n220 = 1

\* C7: when the TLS handshake that follows the 220 fails the session ends,
\* with an error and without a reply, and no further line is handled; every
\* line handled while tls is true was read over a completed handshake.
C7_FailedHandshakeEndsSession ==
    /\ handshake = "failed"
          => /\ pc = "done"
             /\ ret = "err"
             /\ last.op = "readError"
             /\ last.replies = <<>>
    /\ (last.pre.tls /\ last.op \in LineOps) => handshake = "done"

C7_Witness ==
    /\ handshake = "failed"
    /\ tls
    /\ pc = "done"
    /\ hist.n220 = 1

\* C8: hasSender goes from false to true only in a step where a MAIL with
\* the FROM: prefix was accepted by the Sender hook and answered 250, and
\* hasRcpt only in a step where an RCPT with the TO: prefix was accepted by
\* the Recipient hook and answered 250; when the hook rejects, the reply is
\* the mapped error and the flags keep their values.
C8_FlagsSetOnlyOnAcceptance ==
    /\ (last.pre.hasSender = FALSE /\ hasSender = TRUE)
          => /\ last.op = "mail"
             /\ HasPrefixFold(Params(last.line), <<"F","R","O","M",":">>)
             /\ Accepted(last.hooks, "Sender")
             /\ last.replies = <<Reply250OK>>
    /\ (last.pre.hasRcpt = FALSE /\ hasRcpt = TRUE)
          => /\ last.op = "rcpt"
             /\ HasPrefixFold(Params(last.line), <<"T","O",":">>)
             /\ Accepted(last.hooks, "Recipient")
             /\ last.replies = <<Reply250OK>>
    /\ \A i \in 1..Len(last.hooks) :
          (last.hooks[i].hook \in {"Sender", "Recipient"}
           /\ last.hooks[i].err # Nil)
             => /\ last.replies = <<connErrorReply(last.hooks[i].err)>>
                /\ hasSender = last.pre.hasSender
                /\ hasRcpt = last.pre.hasRcpt

C8_Witness ==
    /\ last.op = "rcpt"
    /\ last.pre.hasRcpt
    /\ hasRcpt
    /\ Invoked(last.hooks, "Recipient")
    /\ ~Accepted(last.hooks, "Recipient")

\* C9: the Recipient hook is invoked only while a Sender call has been
\* accepted since the transaction last ended, the Message hook only while a
\* Recipient call has been accepted since the transaction last ended, a
\* transaction ending with RSET or with a DATA phase; a step invokes at
\* most one hook.
C9_HooksWithinTransaction ==
    /\ Invoked(last.hooks, "Recipient") => last.pre.sender
    /\ Invoked(last.hooks, "Message") => (last.pre.sender /\ last.pre.rcpt)
    /\ Len(last.hooks) <= 1

\* C10: decoding the dot-stuffed form of a body of CRLF-terminated lines,
\* with the end marker appended, by calls of dotReader.Read of any buffer
\* sizes yields the bytes of the body, no more and no other, and then
\* io.EOF: what was read is always a beginning of the body, a call returns
\* bytes or io.EOF and no other error, and io.EOF comes exactly when the
\* whole body was read and the marker consumed.
C10_DotRoundTrip ==
    /\ IsPrefix(rout, rbody)
    /\ rlast.err \in {Nil, ioEOF}
    /\ rlast.op = "read" => (rlast.out # <<>> \/ rlast.err = ioEOF)
    /\ rlast.err = ioEOF <=> rd.state = stateEOF
    /\ rd.state = stateEOF
          => /\ rout = rbody
             /\ rin = DotEncode(rbody) \o EndMarker \o rd.r

C10_Witness ==
    /\ rin = <<".", ".", "h", "e", "l", "l", "o", "\r", "\n", ".", "\r", "\n">>
    /\ rout = <<".", "h", "e", "l", "l", "o", "\r", "\n">>
    /\ rlast.op = "read"
    /\ rlast.err = ioEOF

\* the content of a stream up to its end-of-data marker: its lines, each
\* without the dot it begins with
RECURSIVE Unstuffed(_)
Unstuffed(stream) ==
    IF stream = <<>> THEN <<>>
    ELSE LET rs == ReadSlice(stream)
             text == IF Head(rs.line) = "." THEN Tail(rs.line) ELSE rs.line
         IN  IF rs.err # Nil THEN text
             ELSE IF rs.line \in { <<".", "\r", "\n">>, <<".", "\n">> }
             THEN <<>>
             ELSE text \o Unstuffed(rs.rest)

HasMarker(stream) == AfterMarker(stream) # <<"none">>

\* C11: decoding with dotReader.Read alone stops at the first line that is
\* a dot alone: what was read is a beginning of the content before that
\* line, in stateEOF it is all of that content and the stream stands right
\* after the marker's LF, no call reads past that point, and a call made in
\* stateEOF returns no byte with io.EOF and leaves the reader as it was.
C11_ReadStopsAtMarker ==
    rlast.op \in {"none", "read"} =>
        /\ IsPrefix(rout, Unstuffed(rin))
        /\ HasMarker(rin) => Len(rd.r) >= Len(AfterMarker(rin))
        /\ rd.state = stateEOF
              => /\ HasMarker(rin)
                 /\ rout = Unstuffed(rin)
                 /\ rd.r = AfterMarker(rin)
        /\ (rlast.op = "read" /\ rlast.pre.state = stateEOF)
              => /\ rlast.out = <<>>
                 /\ rlast.err = ioEOF
                 /\ rd = rlast.pre

C11_Witness ==
    /\ rlast.op = "read"
    /\ rlast.pre.state = stateEOF
    /\ rlast.err = ioEOF
    /\ rd.r # <<>>
    /\ rout # <<>>

\* dotReader.Read called with buffers of size bytes until it returns an
\* error: the reader afterwards, the bytes read and the error
RECURSIVE ReadAll(_, _, _)
ReadAll(d, size, out) ==
    LET res == Read(d, size)
    IN  IF res.err # Nil
        THEN [d |-> res.d, out |-> out \o res.out, err |-> res.err]
        ELSE ReadAll(res.d, size, out \o res.out)

\* C12: draining a fresh dotReader with WriteTo writes the bytes that
\* calling Read until it stops delivers, and leaves the underlying stream
\* where Read leaves it, for every stream.
C12_WriteToEquivalentToRead ==
    (rlast.op = "writeTo" /\ rlast.pre = NewDotReader(rin))
        => \A size \in 1..MaxBuf :
              LET all == ReadAll(NewDotReader(rin), size, <<>>)
              IN  /\ rout = all.out
                  /\ rd.r = all.d.r

\* C13: on a stream that holds no end-of-data marker dotReader.Read and
\* dotReader.WriteTo never return io.EOF and never reach stateEOF; the
\* error they return at the end of the stream is io.ErrUnexpectedEOF.
C13_NoMarkerNoEOF ==
    ~HasMarker(rin)
        => /\ rlast.err \in {Nil, ioErrUnexpectedEOF}
           /\ rd.state # stateEOF
           /\ (rd.r = <<>> /\ rlast.op = "writeTo")
                 => rlast.err = ioErrUnexpectedEOF

\* C14: when reading a line from the transport fails, in the command loop
\* or inside an AUTH exchange, the session ends there: no reply is written,
\* no hook is invoked and ServeSMTP returns.
C14_ReadFailureEndsSession ==
    last.op \in {"readError", "authReadError"}
        => /\ last.replies = <<>>
           /\ last.hooks = <<>>
           /\ pc = "done"

\* the steps of an AUTH exchange and where it stands between them
AuthOps ==
    { "auth", "authPlainResp", "authLoginUser", "authLoginPass",
      "authCramResp" }
AuthPcs == { "authPlain", "authLoginUser", "authLoginPass", "authCram" }

\* the step invoked AuthUser and the call failed with the error the reply
\* line renders
AuthUserErrorReplied ==
    \E i \in 1..Len(last.hooks) :
        /\ last.hooks[i].hook = "AuthUser"
        /\ last.hooks[i].err # Nil
        /\ last.replies = <<connErrorReply(last.hooks[i].err)>>

\* C15 as stated: every step of an AUTH exchange writes one reply line, a
\* 334 while the exchange goes on and otherwise the final reply, which is
\* 235, 502 or 535; the session then goes on with the command loop.
C15_AuthEndsWith235Or502Or535 ==
    last.op \in AuthOps
        => /\ Len(last.replies) = 1
           /\ ret = "running"
           /\ IF pc \in AuthPcs
              THEN Code(last.replies[1]) = <<"3","3","4">>
              ELSE /\ pc = "loop"
                   /\ Code(last.replies[1]) \in
                        { <<"2","3","5">>, <<"5","0","2">>, <<"5","3","5">> }

\* C15 amended: every step of an AUTH exchange writes one reply line, a 334
\* while the exchange goes on and otherwise the final reply, which is 235,
\* a 502 rejection, the 501 of a cancelled or badly encoded response, or
\* the mapped error of a failed AuthUser call; the session then goes on
\* with the command loop.
C15_AuthEndsWithOneFinalReply ==
    last.op \in AuthOps
        => /\ Len(last.replies) = 1
           /\ ret = "running"
           /\ IF pc \in AuthPcs
              THEN Code(last.replies[1]) = <<"3","3","4">>
              ELSE /\ pc = "loop"
                   /\ \/ last.replies = <<Reply235OK>>
                      \/ Code(last.replies[1]) = <<"5","0","2">>
                      \/ /\ last.replies[1] \in { connErrorReply(ErrAuthCancelled),
                                                  connErrorReply(ErrAuthBase64) }
                         /\ Code(last.replies[1]) = <<"5","0","1">>
                         /\ last.hooks = <<>>
                      \/ AuthUserErrorReplied

C15_Witness ==
    /\ last.op = "authLoginUser"
    /\ last.line = RespCancel
    /\ last.replies = <<connErrorReply(ErrAuthCancelled)>>
    /\ pc = "loop"
    /\ ret = "running"

\* C16: AUTH CRAM-MD5 sends the challenge it keeps for this exchange and
\* keeps none once the exchange is over; the response is answered 235
\* exactly when it decodes, AuthUser returns a password without error for
\* the username in it, and its hash field is the hex HMAC-MD5, keyed by
\* that password, of the challenge sent in this exchange.
C16_CramMD5AcceptsExactlyTheHmac ==
    /\ pc = "authCram"
          => /\ last.op = "auth"
             /\ last.replies = <<Reply334Challenge(B64Encode(authst.challenge))>>
    /\ pc # "authCram" => authst.challenge = <<>>
    /\ last.op = "authCramResp"
          => LET resp == readAuthResp(last.line)
                 username == split1(resp.data).elem
                 hashed == split1(resp.data).rest
             IN  last.replies = <<Reply235OK>>
                    <=> /\ resp.err = Nil
                        /\ Len(last.hooks) = 1
                        /\ last.hooks[1].hook = "AuthUser"
                        /\ last.hooks[1].arg = username
                        /\ last.hooks[1].err = Nil
                        /\ hashed = hmacMD5Hex(last.hooks[1].ret,
                                               last.pre.authst.challenge)

C16_Witness ==
    /\ last.op = "authCramResp"
    /\ last.replies = <<Reply235OK>>
    /\ last.pre.authst.challenge = Challenge("1", server.Hostname)

\* the step ended an AUTH PLAIN with this payload: inline on the AUTH line
\* or as the response to the 334
PlainInline ==
    /\ last.op = "auth"
    /\ Mech(last.line) = <<"P","L","A","I","N">>
    /\ last.pre.tls
    /\ split1(Params(last.line)).rest # <<>>

PlainPayload ==
    IF last.op = "auth" THEN split1(Params(last.line)).rest ELSE last.line

\* the one AuthUser call of the step was made for username and the reply
\* is 235 exactly when it returned password without error
CheckedCredentials(username, password) ==
    /\ Len(last.hooks) = 1
    /\ last.hooks[1].hook = "AuthUser"
    /\ last.hooks[1].arg = username
    /\ last.replies = <<Reply235OK>>
          <=> (last.hooks[1].err = Nil /\ last.hooks[1].ret = password)

\* C17: on an encrypted session AUTH PLAIN and AUTH LOGIN answer 235 exactly
\* when AuthUser returns without error for the supplied username and the
\* supplied password is the one it returned.  AuthUser is called at most
\* once, in the last step of the exchange: for PLAIN the decoded payload
\* must have three NUL-separated fields, else the reply is 502 without a
\* call; for LOGIN the Username prompt is answered before the Password
\* prompt is sent.
C17_PlainLoginCredentialCheck ==
    /\ last.op \in AuthOps
          => /\ Len(last.hooks) <= 1
             /\ last.hooks # <<>> => pc = "loop"
    /\ last.op \in {"authPlainResp", "authLoginUser", "authLoginPass"}
          => last.pre.tls
    /\ (PlainInline \/ last.op = "authPlainResp")
          => LET dec == B64Decode(PlainPayload)
                 parts == BytesSplit(dec.data, "x00")
             IN  /\ ~dec.ok
                       => last.hooks = <<>> /\ last.replies # <<Reply235OK>>
                 /\ (dec.ok /\ Len(parts) # 3)
                       => last.hooks = <<>> /\ last.replies = <<Reply502Decode>>
                 /\ (dec.ok /\ Len(parts) = 3)
                       => CheckedCredentials(parts[2], parts[3])
    /\ pc = "authLoginUser"
          => /\ last.op = "auth"
             /\ last.replies = <<Reply334Username>>
    /\ pc = "authLoginPass"
          => /\ last.op = "authLoginUser"
             /\ last.replies = <<Reply334Password>>
             /\ authst.username = B64Decode(last.line).data
    /\ last.op = "authLoginPass"
          => LET dec == B64Decode(last.line)
             IN  /\ ~dec.ok
                       => last.hooks = <<>> /\ last.replies # <<Reply235OK>>
                 /\ dec.ok
                       => CheckedCredentials(last.pre.authst.username, dec.data)

C17_Witness ==
    /\ last.op = "authLoginPass"
    /\ last.pre.tls
    /\ last.replies = <<Reply235OK>>
    /\ last.hooks[1].arg = UserName

\* C18: in AUTH LOGIN and in AUTH PLAIN without inline credential a
\* response line "*" is answered with the cancellation reply and a line
\* that is not base64 with the bad-encoding reply; the two replies differ
\* from each other and from the reply to wrong credentials; AuthUser is not
\* called, no prompt follows, and tls, hasSender and hasRcpt stay as they
\* were.
C18_CancelAndBadEncoding ==
    /\ connErrorReply(ErrAuthCancelled) # connErrorReply(ErrAuthBase64)
    /\ connErrorReply(ErrAuthCancelled) # Reply502Invalid
    /\ connErrorReply(ErrAuthBase64) # Reply502Invalid
    /\ (/\ last.op \in {"authPlainResp", "authLoginUser", "authLoginPass"}
        /\ (last.line = <<"*">> \/ ~B64Decode(last.line).ok))
          => /\ last.replies =
                   <<connErrorReply(IF last.line = <<"*">>
                                    THEN ErrAuthCancelled ELSE ErrAuthBase64)>>
             /\ last.hooks = <<>>
             /\ pc = "loop"
             /\ tls = last.pre.tls
             /\ hasSender = last.pre.hasSender
             /\ hasRcpt = last.pre.hasRcpt

C18_Witness ==
    /\ last.op = "authLoginPass"
    /\ last.line = <<"*">>
    /\ last.replies = <<connErrorReply(ErrAuthCancelled)>>
    /\ last.hooks = <<>>

\* the text begins with exactly three decimal digits: three digits that no
\* fourth digit follows
BeginsWithThreeDigits(text) ==
    /\ Len(text) >= 3
    /\ \A i \in 1..3 : IsNumber(text[i])
    /\ Len(text) >= 4 => ~IsNumber(text[4])

\* C19: when a hook returns an error, the reply line of the step is the
\* error text itself if the text begins with exactly three decimal digits
\* (the text of three digits alone included), and otherwise
\* "451 Requested action aborted: " followed by the text.
C19_HookErrorMapping ==
    \A i \in 1..Len(last.hooks) :
        last.hooks[i].err # Nil
            => /\ last.replies # <<>>
               /\ last.replies[Len(last.replies)] =
                     IF BeginsWithThreeDigits(last.hooks[i].err)
                     THEN last.hooks[i].err
                     ELSE <<"4","5","1"," ","Requested action aborted: ">>
                              \o last.hooks[i].err

\* C20: a successful EHLO is answered with the lines hostname, STARTTLS if
\* TLS is configured and the session is not encrypted, "AUTH PLAIN LOGIN"
\* on an encrypted session and "AUTH CRAM-MD5" otherwise, PIPELINING if
\* configured, in this order, each line but the last written "250-..." and
\* the last "250 ..."; after a STARTTLS answered 220 the session is
\* encrypted, so PLAIN LOGIN is listed and STARTTLS is not.
C20_EhloReplyLines ==
    (/\ last.op = "ehlo"
     /\ last.hooks # <<>>
     /\ last.hooks[1].err = Nil)
        => LET lines ==
                   <<hostname>>
                   \o (IF server.TLSConfig /\ ~last.pre.tls
                       THEN <<<<"STARTTLS">>>> ELSE <<>>)
                   \o (IF last.pre.tls
                       THEN <<<<"AUTH PLAIN LOGIN">>>>
                       ELSE <<<<"AUTH CRAM-MD5">>>>)
                   \o (IF server.Pipelining THEN <<<<"PIPELINING">>>> ELSE <<>>)
           IN  /\ Len(last.replies) = Len(lines)
               /\ \A i \in 1..Len(lines) :
                     last.replies[i] =
                         <<"2","5","0">>
                         \o (IF i < Len(lines) THEN <<"-">> ELSE <<" ">>)
                         \o lines[i]
               /\ hist.n220 > 0 => last.pre.tls

\* C21: in the dialogue of the test client with a handler that accepts
\* every call, every command gets its positive reply: 220 for the
\* connection, 250 for EHLO, 220 for STARTTLS, 235 for AUTH PLAIN, 250 for
\* MAIL and each RCPT, 354 then 250 for DATA and the body, 221 for QUIT,
\* after which ServeSMTP has returned nil.
C21_DialogueAnsweredPositively ==
    LET s == hist.script
        all250 == /\ last.replies # <<>>
                  /\ \A i \in 1..Len(last.replies) :
                        Code(last.replies[i]) = <<"2","5","0">>
    IN  /\ s = "connect" => Answered(last.replies, <<"2","2","0">>)
        /\ s \in {"ehlo", "ehlo2"} => all250
        /\ s = "starttls" => Answered(last.replies, <<"2","2","0">>)
        /\ s = "auth" => Answered(last.replies, <<"2","3","5">>)
        /\ s \in {"mail", "rcpt"} => Answered(last.replies, <<"2","5","0">>)
        /\ s = "data" => last.replies = <<Reply354, Reply250OK>>
        /\ s = "quit" => /\ Answered(last.replies, <<"2","2","1">>)
                         /\ pc = "done"
                         /\ ret = "nil"
        /\ (s \notin {"off", "start", "quit"}) => pc = "loop" /\ ret = "running"

\* the text up to its first character in stop, all of it when there is none
UpTo(text, stop) ==
    IF \E i \in 1..Len(text) : text[i] \in stop
    THEN SubSeq(text, 1,
                (CHOOSE i \in 1..Len(text) :
                     /\ text[i] \in stop
                     /\ \A j \in 1..(i-1) : text[j] \notin stop) - 1)
    ELSE text

\* the text without its leading whitespace
RECURSIVE TrimLeft(_)
TrimLeft(text) ==
    IF text # <<>> /\ IsSpace(Head(text)) THEN TrimLeft(Tail(text)) ELSE text

\* The address of a parameter text as the specification words it: after
\* one optional leading space, the content between "<" and ">" of a
\* bracketed text (up to the end of the token when the ">" is missing),
\* else the first whitespace-delimited token; empty when there is none.
AddressOf(text) ==
    LET t == IF text # <<>> /\ Head(text) = " " THEN Tail(text) ELSE text
    IN  IF t # <<>> /\ Head(t) = "<"
        THEN UpTo(Tail(t), {">", " ", "\t", "\r", "\n"})
        ELSE UpTo(TrimLeft(t), {" ", "\t", "\r", "\n"})

\* C22: the address handed to Sender and to Recipient is the address of the
\* text after the FROM: / TO: prefix: the bracketed content or the first
\* token, the empty string when there is none.
C22_AddressHandedToHook ==
    /\ (last.op = "mail" /\ Invoked(last.hooks, "Sender"))
          => LET params == Params(last.line)
             IN  last.hooks[1].arg = AddressOf(SubSeq(params, 6, Len(params)))
    /\ (last.op = "rcpt" /\ Invoked(last.hooks, "Recipient"))
          => LET params == Params(last.line)
             IN  last.hooks[1].arg = AddressOf(SubSeq(params, 4, Len(params)))

\* the steps after which ServeSMTP has returned
EndingOps == { "quit", "connect", "readError" }

\* C23: QUIT dispatched in any session state is answered 221 and ends the
\* session: ServeSMTP has returned nil, no hook was called, and nothing
\* follows: lines still buffered stay unread, no step comes after it.
C23_QuitEndsSession ==
    /\ last.op = "quit"
          => /\ last.replies = <<Reply221(hostname)>>
             /\ last.hooks = <<>>
             /\ last.body = <<>>
             /\ pc = "done"
             /\ ret = "nil"
    /\ pc = "done" => last.op \in EndingOps
    /\ ret = "nil" => pc = "done"

C23_Witness ==
    /\ last.op = "quit"
    /\ last.pre.tls
    /\ last.pre.hasSender
    /\ last.pre.hasRcpt
    /\ conn.buf # <<>>
    /\ pc = "done"

\* what the command loop does with the line ReadLine hands out next, with
\* hooks that accept
NextMailAccepted(r) ==
    LET e == mail(r, Params(r.line), Nil)
    IN  e.replies = <<Reply250OK>> /\ e.hasSender
NextRcptRefused(r) ==
    LET e == rcpt(r, Params(r.line), Nil)
    IN  e.replies = <<Reply503Rcpt>> /\ e.hooks = <<>>
NextDataRefused(r) ==
    \A tail \in BodyTails :
        LET e == data(r, tail, 0, Nil)
        IN  e.replies = <<Reply503Data>> /\ e.hooks = <<>>

\* C24: RSET dispatched in any session state clears hasSender and hasRcpt,
\* replies 250, calls no hook and leaves the encrypted flag as it was; the
\* command after it is accepted if it is a well-formed MAIL and answered 503
\* if it is RCPT or DATA.
C24_RsetClearsTransaction ==
    last.op = "rset"
        => /\ hasSender = FALSE
           /\ hasRcpt = FALSE
           /\ last.replies = <<Reply250OK>>
           /\ last.hooks = <<>>
           /\ tls = last.pre.tls
           /\ pc = "loop"
           /\ \A r \in ReadLine(CmdLines) :
                 /\ (/\ Verb(r.line) = <<"M","A","I","L">>
                     /\ HasPrefixFold(Params(r.line), <<"F","R","O","M",":">>))
                       => NextMailAccepted(r)
                 /\ Verb(r.line) = <<"R","C","P","T">> => NextRcptRefused(r)
                 /\ Verb(r.line) = <<"D","A","T","A">> => NextDataRefused(r)

C24_Witness ==
    /\ last.op = "rset"
    /\ last.pre.hasSender
    /\ last.pre.hasRcpt
    /\ last.pre.tls
    /\ hasSender = FALSE
    /\ hasRcpt = FALSE

\* a final reply line: three digits and a space, not the 334 or 354 that
\* asks the client to go on
FinalLine(line) ==
    /\ Len(line) >= 4
    /\ \A i \in 1..3 : IsNumber(line[i])
    /\ line[4] = " "
    /\ Code(line) \notin { <<"3","3","4">>, <<"3","5","4">> }

\* the lines of one multi-line 250 reply
MultiLine250(replies) ==
    /\ replies # <<>>
    /\ \A i \in 1..Len(replies) :
          /\ Code(replies[i]) = <<"2","5","0">>
          /\ replies[i][4] = (IF i < Len(replies) THEN "-" ELSE " ")

\* C25: every command the loop dispatches gets exactly one final reply: one
\* line, or the multi-line 250 of EHLO, with only the 354 of DATA or the
\* 334 lines of AUTH before it.  A step of an AUTH exchange writes either
\* one 334, and the exchange goes on, or the one final line.
C25_OneFinalReplyPerCommand ==
    last.op \in LineOps
        => IF last.op \in AuthOps /\ pc \in AuthPcs
           THEN Answered(last.replies, <<"3","3","4">>)
           ELSE IF last.op = "data" /\ Len(last.replies) # 1
           THEN /\ Len(last.replies) = 2
                /\ last.replies[1] = Reply354
                /\ FinalLine(last.replies[2])
           ELSE IF last.op = "ehlo" /\ Len(last.replies) # 1
           THEN MultiLine250(last.replies)
           ELSE /\ Len(last.replies) = 1
                /\ FinalLine(last.replies[1])

C25_Witness ==
    /\ last.op = "data"
    /\ Len(last.replies) = 2
    /\ last.replies[1] = Reply354
    /\ Code(last.replies[2]) = <<"4","5","1">>

\* C26: when the Connect hook returns an error the session writes the
\* mapped error reply and nothing else: no 220, no line read, no other hook,
\* and ServeSMTP has returned.
C26_ConnectErrorEndsSession ==
    /\ (last.op = "connect" /\ last.hooks[1].err # Nil)
          => /\ last.replies = <<connErrorReply(last.hooks[1].err)>>
             /\ Len(last.hooks) = 1
             /\ last.hooks[1].hook = "Connect"
             /\ last.line = <<>>
             /\ pc = "done"
             /\ ret = "nil"
    /\ (last.op = "connect" /\ last.hooks[1].err = Nil) => pc = "loop"

C26_Witness ==
    /\ last.op = "connect"
    /\ last.hooks[1].err = <<"f","a","i","l">>
    /\ last.replies = <<connErrorReply(<<"f","a","i","l">>)>>
    /\ pc = "done"

\* C27: a command the engine answers 500, 501 or 503 itself calls no hook
\* and leaves tls, hasSender, hasRcpt and everything else the next command
\* depends on as they were.
C27_RejectedCommandChangesNothing ==
    (/\ last.op \in CommandOps
     /\ Len(last.replies) = 1
     /\ Code(last.replies[1]) \in
            { <<"5","0","0">>, <<"5","0","1">>, <<"5","0","3">> })
        => /\ last.hooks = <<>>
           /\ last.body = <<>>
           /\ tls = last.pre.tls
           /\ hasSender = last.pre.hasSender
           /\ hasRcpt = last.pre.hasRcpt
           /\ authst = last.pre.authst
           /\ conn.gen = last.pre.gen
           /\ pc = "loop"
           /\ ret = "running"

C27_Witness ==
    /\ last.op = "helo"
    /\ last.replies = <<Reply501Helo>>
    /\ last.pre.hasSender
    /\ last.pre.hasRcpt
    /\ hasSender
    /\ hasRcpt

\* C30: hasRcpt implies hasSender in every reachable state.
C30_RcptImpliesSender ==
    hasRcpt => hasSender

C30_Witness ==
    /\ last.op = "data"
    /\ Len(last.replies) = 2
    /\ hasRcpt
    /\ hasSender

\* a Read call that began at the beginning of a line, on a dot followed by
\* a byte that is neither CR nor LF: the call went through the Dot state
\* with this byte
ReadThroughDot ==
    /\ rlast.op = "read"
    /\ rlast.pre.state = stateBeginLine
    /\ Len(rlast.pre.r) >= 2
    /\ rlast.pre.r[1] = "."
    /\ rlast.pre.r[2] \notin {"\r", "\n"}

\* C28 as stated: in the Dot state a byte other than CR and LF moves the
\* reader to the Data state, and the dot is emitted, followed by this byte.
C28_DotStateEmitsDot ==
    ReadThroughDot
        => /\ rlast.out # <<>>
           /\ rlast.out[1] = "."
           /\ Len(rlast.out) >= 2 => rlast.out[2] = rlast.pre.r[2]
           /\ Len(rlast.pre.r) - Len(rd.r) = 2 => rd.state = stateData

\* C28 amended: in the Dot state a byte other than CR and LF moves the
\* reader to the Data state and this byte alone is emitted; the withheld
\* dot is dropped.
C28_DotStateDropsDot ==
    /\ \A c \in StreamBytes \ {"\r", "\n"} :
          ReadSwitch(stateDot, c) =
              [state |-> stateData, emit |-> <<c>>, unread |-> FALSE]
    /\ ReadThroughDot
          => /\ rlast.out # <<>>
             /\ rlast.out[1] = rlast.pre.r[2]
             /\ Len(rlast.pre.r) - Len(rd.r) = 2
                   => rd.state = stateData /\ rlast.out = <<rlast.pre.r[2]>>

C28_Witness ==
    /\ ReadThroughDot
    /\ rlast.pre.r[2] = "a"
    /\ rlast.out = <<"a">>
    /\ rd.state = stateData
    /\ Len(rlast.pre.r) - Len(rd.r) = 2

\* C29: ErrorReply leaves a text that begins with a three-digit status as
\* it is, and puts "400 " before any other text when the error is marked
\* temporary and "500 " when it is not; a hook error without status that is
\* marked temporary reaches the client with a status of the 400 class.
C29_ErrorReplyConstructor ==
    /\ last.op = "ErrorReply"
          => LET text == last.hooks[1].arg
                 temporary == last.hooks[1].err = "true"
             IN  last.replies =
                     << IF BeginsWithThreeDigits(text) THEN text
                        ELSE IF temporary THEN <<"4","0","0"," ">> \o text
                        ELSE <<"5","0","0"," ">> \o text >>
    /\ \A text \in ReplyTextsOf(MaxReplyLen) :
          ~BeginsWithThreeDigits(text) => connErrorReply(text)[1] = "4"

\* what the drain of session.data returned on this stream after the
\* Message hook took the bytes `read` from it
DrainErr(stream, read) ==
    WriteTo(Read(NewDotReader(stream), Len(read)).d).err

\* C31: when the client's stream ends in the middle of the body (the drain
\* stops with an unexpected end of input) no 250 is written for the message
\* and hasSender and hasRcpt stay as they were, also when the Message hook
\* returned success without reading the body.
C31_No250BeforeMarker ==
    (/\ last.op = "data"
     /\ last.body # <<>>
     /\ DrainErr(last.body, last.hooks[1].arg) = ioErrUnexpectedEOF)
        => /\ \A i \in 1..Len(last.replies) : last.replies[i] # Reply250OK
           /\ hasSender = last.pre.hasSender
           /\ hasRcpt = last.pre.hasRcpt

\* what the command loop does with the next MAIL, RCPT or DATA line, for
\* every result of its hook: the order checks answer as the flags hs
\* (hasSender) and hr (hasRcpt) say, and a line that passes them reaches
\* its hook
TransactionGoesOnAs(hs, hr) ==
    \A r \in ReadLine({LineMail, LineRcpt, LineData}) :
        \A err \in HookResults :
            /\ Verb(r.line) = <<"M","A","I","L">> =>
                 LET e == mail(r, Params(r.line), err)
                 IN  IF hs
                     THEN e.replies = <<Reply503Sender>> /\ e.hooks = <<>>
                     ELSE /\ Invoked(e.hooks, "Sender")
                          /\ err = Nil => e.replies = <<Reply250OK>>
            /\ Verb(r.line) = <<"R","C","P","T">> =>
                 LET e == rcpt(r, Params(r.line), err)
                 IN  IF ~hs
                     THEN e.replies = <<Reply503Rcpt>> /\ e.hooks = <<>>
                     ELSE /\ Invoked(e.hooks, "Recipient")
                          /\ err = Nil => e.replies = <<Reply250OK>>
            /\ Verb(r.line) = <<"D","A","T","A">> =>
                 \A tail \in BodyTails :
                     LET e == data(r, tail, 0, err)
                     IN  IF ~hr
                         THEN e.replies = <<Reply503Data>> /\ e.hooks = <<>>
                         ELSE /\ Invoked(e.hooks, "Message")
                              /\ e.replies[1] = Reply354
                              /\ err = Nil => e.replies[2] = Reply250OK

\* an AUTH line is taken up again: the mechanism the session allows is
\* answered 334
AuthTakenUpAgain ==
    \A r \in ReadLine({LineAuthCram}) :
        \A ar \in AuthResults, rnd \in Nonces :
            Verb(r.line) = <<"A","U","T","H">> =>
                LET e == auth(r, Params(r.line), ar, rnd)
                IN  /\ Len(e.replies) = 1
                    /\ Code(e.replies[1]) = <<"3","3","4">>
                    /\ e.pc = "authCram"

\* C32: HELO, EHLO and every step of an AUTH exchange, whatever its
\* outcome, leave tls, hasSender and hasRcpt as they were; STARTTLS changes
\* the tls flag only; nothing of an AUTH exchange is kept once it is over,
\* so the MAIL, RCPT and DATA that follow are answered as the flags before
\* the step say, and an AUTH after a 235 starts a new exchange.
C32_HelloAuthStarttlsFrame ==
    /\ last.op \in {"helo", "ehlo", "authReadError"} \cup AuthOps
          => /\ tls = last.pre.tls
             /\ hasSender = last.pre.hasSender
             /\ hasRcpt = last.pre.hasRcpt
             /\ pc = "loop" =>
                   /\ authst = NoAuth
                   /\ TransactionGoesOnAs(last.pre.hasSender, last.pre.hasRcpt)
    /\ last.op = "starttls"
          => /\ hasSender = last.pre.hasSender
             /\ hasRcpt = last.pre.hasRcpt
             /\ tls = (last.pre.tls \/ last.replies = <<Reply220ReadyTLS>>)
             /\ TransactionGoesOnAs(last.pre.hasSender, last.pre.hasRcpt)
    /\ (last.op \in AuthOps /\ last.replies = <<Reply235OK>>)
          => /\ pc = "loop"
             /\ AuthTakenUpAgain

C32_Witness ==
    /\ last.op \in AuthOps
    /\ last.replies = <<Reply235OK>>
    /\ hasSender
    /\ hasRcpt
    /\ tls
    /\ conn.buf = <<>>
    /\ ~closed

\* the server hostname a reply line reports: the word that follows the
\* status and its separator
HostReported(line) ==
    UpTo(SubSeq(line, 5, Len(line)),
         {" ", " ESMTP <time>", " closing connection"})

\* C33: the hostname in the first line of a successful EHLO reply is the
\* hostname of the 220 greeting, of the HELO reply and of the 221 reply of
\* the session, for every server configuration, the one with an empty
\* Hostname included: each of them reports Server.hostname().
C33_OneHostnameInEveryReply ==
    /\ (last.op = "connect" /\ Answered(last.replies, <<"2","2","0">>))
          => HostReported(last.replies[1]) = hostname
    /\ (last.op = "helo" /\ Answered(last.replies, <<"2","5","0">>))
          => HostReported(last.replies[1]) = hostname
    /\ last.op = "quit"
          => HostReported(last.replies[1]) = hostname
    /\ (/\ last.op = "ehlo"
        /\ last.hooks # <<>>
        /\ last.hooks[1].err = Nil)
          => HostReported(last.replies[1]) = hostname

\* where ServeSMTP stands, as a number that falls on the way to its return
PcRank ==
    CASE pc = "done" -> 0
      [] pc = "loop" -> 1
      [] pc = "connect" -> 3
      [] OTHER -> 2

\* A step uses up input: the client has less left to send, or it has as
\* much left and fewer lines wait in the buffer, or both are as they were
\* and ServeSMTP has left an AUTH exchange or returned.
UsesUpInput ==
    \/ hist'.left < hist.left
    \/ /\ hist'.left = hist.left
       /\ Len(conn'.buf) < Len(conn.buf)
    \/ /\ hist'.left = hist.left
       /\ Len(conn'.buf) = Len(conn.buf)
       /\ PcRank' < PcRank

====
